---- MODULE Spec2Model ----
(***************************************************************************)
(* Offline static scheduler for mixed-criticality periodic task sets.      *)
(*                                                                         *)
(* The model follows the Python sources: job expansion (builder.py), the   *)
(* admission test and the EDF / RM orderings (algorithm.py), the timeline  *)
(* scheduler (scheduler.py), the feasibility predicates of Job and App     *)
(* (graph_model.py) and the objective (objective.py).  The hill-climbing   *)
(* optimiser, of which the sources hold only a stub, follows the           *)
(* specification document.  Time is integral; an interval is a record      *)
(* [start, stop] standing for [start, stop).                               *)
(***************************************************************************)
EXTENDS Integers, Sequences, FiniteSets, TLC

(* ---------------------------------------------------------------- bounds *)

\* largest worst-case execution time of a task
MaxWcet == 2
\* largest initial_step of the optimiser
MaxStep == 2
\* largest partition switch time
MaxSwitch == 1
\* largest number of window moves applied on top of the seed map
MaxNarrow == 1
\* admission test: largest number of tasks, of processors, of cores of one
MaxTasks == 3
MaxCpus == 2
MaxCoresPerCpu == 2
\* feasibility checker: largest number of slices of an execution
MaxSlices == 2
\* overlap tests: largest stop of a slice
MaxStop == 5

TaskIds == {1, 2}
CoreIds == {1, 2}
Periods == {2, 4}
AdmPeriods == {2, 5}
Crits == {0, 1}
Algorithms == {"edf", "rm"}

(* ------------------------------------------------------------ the state *)

VARIABLES
    task,         \* task id -> [wcet, period, deadline, criticality, core]
    order,        \* App.order of the application holding the tasks
    alg,          \* the scheduling algorithm, "edf" or "rm"
    step,         \* Parameters.initial_step
    switch_time,  \* Parameters.switch_time
    arch,         \* the architecture: the number of cores of each processor
    exec_window,  \* job -> Job.exec_window
    execution,    \* job -> Job.execution, a set of slices
    pc,           \* where the program stands
    cur,          \* position of schedule(): [core, idx] in the ordered jobs
    narrowed,     \* number of window moves (generations) this map carries
    runs,         \* number of schedule() calls made on this map
    prev,         \* job -> execution as the previous schedule() call left it
    graph_jobs,   \* job -> execution of the Job objects held by Task.jobs
    admission,    \* what the admission test returned
    verdict,      \* what the feasibility checker returned
    current_best, \* the optimiser's current best: its score, how it got there
    generations,  \* the optimiser's generations, oldest first
    returned,     \* the solution the optimiser has returned
    candidate,    \* the neighbour the optimiser has built last
    apps,         \* Graph.apps: the task list of each application, in order
    cpu_apps,     \* processor -> Processor.apps
    core_tasks,   \* core -> Core.tasks, the one list every copy of a core shares
    cpu_pqueue,   \* the heap of processors inside mapping()
    next_app,     \* the position of mapping() in apps
    mapped,       \* the core -> jobs map that mapping() returned
    possibilities, \* the alteration table: application -> core -> tasks
    compared      \* the two slices compared last and what the comparison returned

vars == <<task, order, alg, step, switch_time, arch, exec_window, execution, pc, cur,
          narrowed, runs, prev, graph_jobs, admission, verdict, current_best,
          generations, returned, candidate, apps, cpu_apps, core_tasks, cpu_pqueue,
          next_app, mapped, possibilities, compared>>

\* the state of the optimiser's search
optvars == <<generations, returned, candidate>>

\* the state of the mapper
mapvars == <<apps, cpu_apps, core_tasks, cpu_pqueue, next_app, mapped, possibilities>>

(* ------------------------------------------------------------ intervals *)

Slice(a, b) == [start |-> a, stop |-> b]

\* Slice.__len__
SliceLen(s) == s.stop - s.start

_overlap_before(slice1, slice2) ==
    \/ (slice1.start < slice2.start /\ slice2.start < slice1.stop /\ slice1.stop <= slice2.stop)
    \/ (slice1.start = slice2.start /\ slice1.stop < slice2.stop)

_overlap_after(slice1, slice2) ==
    \/ (slice2.start <= slice1.start /\ slice1.start < slice2.stop /\ slice2.stop < slice1.stop)
    \/ (slice2.start < slice1.start /\ slice1.stop = slice2.stop)

_inside(slice1, slice2) == slice2.start < slice1.start /\ slice1.stop < slice2.stop

\* _intersect without the test of equal slices
_intersect_unequal(slice1, slice2) ==
    \/ _overlap_before(slice1, slice2)
    \/ _overlap_after(slice1, slice2)
    \/ _inside(slice1, slice2)
    \/ _inside(slice2, slice1)

_intersect(slice1, slice2) ==
    \/ (slice1.start = slice2.start /\ slice1.stop = slice2.stop)
    \/ _overlap_before(slice1, slice2)
    \/ _overlap_after(slice1, slice2)
    \/ _inside(slice1, slice2)
    \/ _inside(slice2, slice1)

\* Slice.intersect
intersect(self, other) == self.start < other.stop /\ other.start < self.stop

(* -------------------------------------------------------- job expansion *)

RECURSIVE Gcd(_, _)
Gcd(a, b) == IF b = 0 THEN a ELSE Gcd(b, a % b)

\* a variant that multiplies the periods
lcm_product(a, b) == a * b

Lcm(a, b) == (a * b) \div Gcd(a, b)

RECURSIVE LcmOf(_)
LcmOf(S) == IF S = {} THEN 1 ELSE LET p == CHOOSE x \in S : TRUE IN Lcm(p, LcmOf(S \ {p}))

\* builder._compute_hyperperiod over the task table tk
_compute_hyperperiod(tk) == LcmOf({tk[t].period : t \in DOMAIN tk})

\* the jobs builder._create_jobs makes: <<t, i>> is instance i of task t
_create_jobs(tk) ==
    UNION {{<<t, i>> : i \in 0 .. (_compute_hyperperiod(tk) \div tk[t].period) - 1} : t \in DOMAIN tk}

\* Job.sched_window of job j
sched_window(tk, j) ==
    Slice(j[2] * tk[j[1]].period, j[2] * tk[j[1]].period + tk[j[1]].deadline)

(* --------------------------------------------------- the core -> jobs map *)

\* the cores that hold tasks, in the iteration order of core_jobs
Cores(tk) == {tk[t].core : t \in DOMAIN tk}

RECURSIVE SeqOfInts(_)
\* the elements of a set of integers in ascending order
SeqOfInts(S) ==
    IF S = {} THEN <<>>
    ELSE LET m == CHOOSE x \in S : \A y \in S : x <= y IN <<m>> \o SeqOfInts(S \ {m})

RECURSIVE Flatten(_, _, _)
\* a variant that takes only the first job of each task
flatten_first(tk, ts, i) ==
    IF i > Len(ts) THEN <<>> ELSE <<<<ts[i], 0>>>> \o Flatten(tk, ts, i + 1)

\* [job for task in core for job in task]: tasks in list order, jobs by instance
Flatten(tk, ts, i) ==
    IF i > Len(ts) THEN <<>>
    ELSE [k \in 1 .. (_compute_hyperperiod(tk) \div tk[ts[i]].period) |-> <<ts[i], k - 1>>]
         \o Flatten(tk, ts, i + 1)

\* core_jobs[c] as mapper.mapping returns it
core_jobs(tk, c) == Flatten(tk, SeqOfInts({t \in DOMAIN tk : tk[t].core = c}), 1)

(* ------------------------------------------------------------- ordering *)

\* a variant that puts the latest deadline first under edf
SortKeyLatest(tk, a, j) ==
    IF a = "edf" THEN 0 - sched_window(tk, j).stop ELSE tk[j[1]].period

\* a variant whose edf key follows the start of the exec_window
SortKeyExecWindow(tk, a, j) ==
    IF a = "edf" THEN exec_window[j].start + tk[j[1]].deadline ELSE tk[j[1]].period

\* the sort key of a job: job.sched_window.stop (edf), job.task.period (rm)
SortKey(tk, a, j) == IF a = "edf" THEN sched_window(tk, j).stop ELSE tk[j[1]].period

RECURSIVE ordering(_, _, _)
\* sorted(jobs, key=...): stable, the first job of least key comes first
ordering(tk, a, jobs) ==
    IF jobs = <<>> THEN <<>>
    ELSE LET i == CHOOSE x \in 1 .. Len(jobs) :
                    /\ \A y \in 1 .. Len(jobs) : SortKey(tk, a, jobs[x]) <= SortKey(tk, a, jobs[y])
                    /\ \A y \in 1 .. (x - 1) : SortKey(tk, a, jobs[y]) > SortKey(tk, a, jobs[x])
             rest == [k \in 1 .. (Len(jobs) - 1) |-> IF k < i THEN jobs[k] ELSE jobs[k + 1]]
         IN <<jobs[i]>> \o ordering(tk, a, rest)

(* ------------------------------------------------------------ scheduler *)

\* a variant that keeps only the slices lying strictly inside the window
IntersectingInside(tk, ex, target_job, jobs) ==
    UNION {{[job |-> jobs[n], start |-> s.start, stop |-> s.stop] :
                s \in {x \in ex[jobs[n]] : _inside(x, sched_window(tk, target_job))}} :
           n \in 1 .. Len(jobs)}

\* a variant that collects the slices of the jobs of every core
IntersectingAllCores(tk, ex, target_job, jobs) ==
    UNION {{[job |-> j, start |-> s.start, stop |-> s.stop] :
                s \in {x \in ex[j] : _intersect(sched_window(tk, target_job), x)}} :
           j \in {m \in DOMAIN ex :
                    _intersect(sched_window(tk, target_job), sched_window(tk, m))}}

\* the slices of the jobs of a core that _get_intersecting_slices collects
\* for target_job, before the check and the sort
IntersectingSet(tk, ex, target_job, jobs) ==
    UNION {{[job |-> jobs[n], start |-> s.start, stop |-> s.stop] :
                s \in {x \in ex[jobs[n]] : _intersect(sched_window(tk, target_job), x)}} :
           n \in {m \in 1 .. Len(jobs) :
                    _intersect(sched_window(tk, target_job), sched_window(tk, jobs[m]))}}

\* TRUE when _check_no_intersect raises
_check_no_intersect(slices) ==
    \E a \in slices : \E b \in slices : a # b /\ _intersect(a, b)

RECURSIVE SortByStart(_)
\* sorted(slices, key=lambda s: s.start)
SortByStart(S) ==
    IF S = {} THEN <<>>
    ELSE LET m == CHOOSE x \in S : \A y \in S : x.start <= y.start
         IN <<Slice(m.start, m.stop)>> \o SortByStart(S \ {m})

_get_intersecting_slices(tk, ex, target_job, jobs) ==
    SortByStart(IntersectingSet(tk, ex, target_job, jobs))

Returned(js) == [err |-> "none", slices |-> js]
Raised(e) == [err |-> e, slices |-> <<>>]

RECURSIVE MiddleGaps(_, _, _, _)
\* the loop over the gaps between consecutive intersecting slices
MiddleGaps(slices, i, job_slices, remaining) ==
    IF i > Len(slices) - 1 THEN [ret |-> FALSE, js |-> job_slices, rem |-> remaining]
    ELSE LET space == slices[i + 1].start - slices[i].stop IN
         IF 0 < space
         THEN IF remaining <= space
              THEN [ret |-> TRUE,
                    js |-> Append(job_slices, Slice(slices[i].stop, slices[i].stop + remaining)),
                    rem |-> remaining]
              ELSE MiddleGaps(slices, i + 1,
                              Append(job_slices, Slice(slices[i].stop, slices[i].stop + space)),
                              remaining - space)
         ELSE MiddleGaps(slices, i + 1, job_slices, remaining)

\* the last step of _get_slices: the space after the last intersecting slice
FollowingSpace(w, slices, m) ==
    LET last == slices[Len(slices)] IN
    IF last.stop < w.stop
    THEN IF m.rem <= w.stop - last.stop
         THEN Returned(Append(m.js, Slice(last.stop, last.stop + (w.stop - last.stop))))
         ELSE Raised("no_time")
    ELSE Returned(m.js)

_get_slices(tk, ew, ex, job, jobs) ==
    LET w == ew[job]
        wcet == tk[job[1]].wcet
        found == IntersectingSet(tk, ex, job, jobs)
        slices == SortByStart(found)
    IN  IF _check_no_intersect(found) THEN Raised("intersect")
        ELSE IF slices = <<>> THEN Returned(<<Slice(w.start, w.start + wcet)>>)
        ELSE LET leading == w.start < slices[1].start
                 space == slices[1].start - w.start
             IN  IF leading /\ wcet <= space
                 THEN Returned(<<Slice(w.start, w.start + wcet)>>)
                 ELSE LET m == MiddleGaps(slices, 1,
                                   IF leading THEN <<Slice(w.start, w.start + space)>> ELSE <<>>,
                                   IF leading THEN wcet - space ELSE wcet)
                      IN  IF m.ret THEN Returned(m.js) ELSE FollowingSpace(w, slices, m)

RECURSIVE _get_runtime(_)
\* the running time of a list of slices
_get_runtime(slices) ==
    IF slices = <<>> THEN 0 ELSE SliceLen(Head(slices)) + _get_runtime(Tail(slices))

\* a variant that hands the slices back without cutting the last one
_generate_exec_slices_uncut(target_runtime, slices) == slices

RECURSIVE _generate_exec_slices(_, _)
\* takes slices until target_runtime is met, cutting the last one
_generate_exec_slices(target_runtime, slices) ==
    IF slices = <<>> THEN <<>>
    ELSE LET s == Head(slices) IN
         IF target_runtime <= SliceLen(s)
         THEN <<Slice(s.start, s.start + target_runtime)>>
         ELSE <<s>> \o _generate_exec_slices(target_runtime - SliceLen(s), Tail(slices))

SeqToSet(q) == {q[i] : i \in 1 .. Len(q)}

\* one iteration of the loop of _create_execution_slices: what happens to job
\* [err: "none" | "intersect" | "no_time" | "short", add: the slices extended]
PlaceJob(tk, ew, ex, job, jobs) ==
    LET r == _get_slices(tk, ew, ex, job, jobs)
        wcet == tk[job[1]].wcet
        runtime == _get_runtime(r.slices)
    IN  IF r.err # "none" THEN [err |-> r.err, add |-> {}]
        ELSE IF runtime = wcet THEN [err |-> "none", add |-> SeqToSet(r.slices)]
        ELSE IF wcet < runtime
             THEN [err |-> "none", add |-> SeqToSet(_generate_exec_slices(wcet, r.slices))]
        ELSE [err |-> "short", add |-> {}]

(* ---------------------------------------------------------- feasibility *)

\* execution[0] and execution[-1] of a non-empty execution sorted by start
FirstSlice(e) == CHOOSE x \in e : \A y \in e : x.start <= y.start
LastSlice(e) == CHOOSE x \in e : \A y \in e : y.start <= x.start

Value(b) == [raised |-> FALSE, value |-> b]
IndexError == [raised |-> TRUE, value |-> FALSE]

\* Job.has_deadline_miss: execution[-1] of an empty execution raises
has_deadline_miss(e, w) == IF e = {} THEN IndexError ELSE Value(LastSlice(e).stop > w.stop)

\* Job.has_offset_miss
has_offset_miss(e, w) == IF e = {} THEN IndexError ELSE Value(FirstSlice(e).start < w.start)

\* Job.has_execution_miss: `or` evaluates left to right and stops at the first true
has_execution_miss(e, w) ==
    IF Cardinality(e) = 0 THEN Value(TRUE)
    ELSE IF has_deadline_miss(e, w).raised THEN IndexError
    ELSE IF has_deadline_miss(e, w).value THEN Value(TRUE)
    ELSE has_offset_miss(e, w)

RECURSIVE SumLen(_)
SumLen(e) == IF e = {} THEN 0 ELSE LET x == CHOOSE y \in e : TRUE IN SliceLen(x) + SumLen(e \ {x})

\* Job.duration
duration(e) == SumLen(e)

\* a variant that only sees an execution shorter than the wcet
has_wcet_miss_short(e, wcet) == duration(e) < wcet

\* Job.has_wcet_miss
has_wcet_miss(e, wcet) == duration(e) # wcet

\* the last job of a task: task.jobs[-1]
LastJob(tk, t) == <<t, (_compute_hyperperiod(tk) \div tk[t].period) - 1>>

\* the tasks of the application in declared order
AppTasks(tk) == SeqOfInts(DOMAIN tk)

\* App.has_order_miss, read on the Job objects of Task.jobs
has_order_miss(tk, ord, gj) ==
    LET ts == AppTasks(tk) IN
    IF Len(ts) < 2 \/ ~ord THEN Value(FALSE)
    ELSE IF \E i \in 1 .. (Len(ts) - 1) :
                gj[LastJob(tk, ts[i + 1])] = {} \/ gj[LastJob(tk, ts[i])] = {}
         THEN IndexError
    ELSE Value(\E i \in 1 .. (Len(ts) - 1) :
                 LastSlice(gj[LastJob(tk, ts[i + 1])]).start < LastSlice(gj[LastJob(tk, ts[i])]).stop)

\* a variant that lets every order of the tasks pass
check_task_ordering_skipped(tk, ord, gj) == TRUE

\* Graph.check_task_ordering: TRUE when no ordered application has an order miss
check_task_ordering(tk, ord, gj) ==
    IF ord THEN ~has_order_miss(tk, ord, gj).value ELSE TRUE

\* the feasibility checker's verdict on one job
JobAccepted(tk, ew, ex, j) ==
    /\ ~has_execution_miss(ex[j], ew[j]).value
    /\ ~has_wcet_miss(ex[j], tk[j[1]].wcet)

\* the feasibility checker's verdict on a core -> jobs map
is_feasible(tk, ord, ew, ex, gj) ==
    /\ \A j \in DOMAIN ex : JobAccepted(tk, ew, ex, j)
    /\ check_task_ordering(tk, ord, gj)

(* ---------------------------------------------------- the whole schedule *)

RECURSIVE _create_execution_slices(_, _, _, _, _)
\* _create_execution_slices over the jobs of one core, from the i-th on:
\* ok is FALSE when a job fails (r is what PlaceJob gives for the i-th job)
_create_execution_slices(tk, ew, ex, jobs, i) ==
    IF i > Len(jobs) THEN [ok |-> TRUE, ex |-> ex]
    ELSE CHOOSE out \in
             {IF r.err # "none" THEN [ok |-> FALSE, ex |-> ex]
              ELSE _create_execution_slices(tk, ew, [ex EXCEPT ![jobs[i]] = @ \cup r.add], jobs, i + 1) :
                 r \in {PlaceJob(tk, ew, ex, jobs[i], jobs)}} : TRUE

RECURSIVE ScheduleLists(_, _, _, _, _)
\* the loop of schedule() over the job lists of the cores, in map order
ScheduleLists(tk, a, ew, ex, lists) ==
    IF lists = <<>> THEN [ok |-> TRUE, ex |-> ex]
    ELSE CHOOSE out \in
             {IF r.ok THEN ScheduleLists(tk, a, ew, r.ex, Tail(lists)) ELSE r :
                 r \in {_create_execution_slices(tk, ew, ex, ordering(tk, a, Head(lists)), 1)}} :
             TRUE

\* the loop of schedule() over the cores cs of the map mapping() returns
ScheduleCores(tk, a, ew, ex, cs) ==
    ScheduleLists(tk, a, ew, ex, [i \in 1 .. Len(cs) |-> core_jobs(tk, cs[i])])

\* schedule() on a map given as core -> list of jobs
schedule_map(tk, a, ew, ex, cj) ==
    ScheduleLists(tk, a, ew, ex, [i \in 1 .. Cardinality(DOMAIN cj) |-> cj[SeqOfInts(DOMAIN cj)[i]]])

\* schedule() on the map whose executions are ex
schedule(tk, a, ew, ex) == ScheduleCores(tk, a, ew, ex, SeqOfInts(Cores(tk)))

(* ------------------------------------------------------------ objective *)

RECURSIVE SortPairs(_)
\* sorted(_slice for job in jobs for _slice in job), each slice with its job
SortPairs(P) ==
    IF P = {} THEN <<>>
    ELSE LET m == CHOOSE x \in P : \A y \in P : x[2].start <= y[2].start
         IN <<m>> \o SortPairs(P \ {m})

RECURSIVE CoreRunTime(_, _, _, _)
\* a variant that charges no switch time
CoreRunTimeNoSwitch(tk, sw, slices, i) ==
    IF i = Len(slices) THEN SliceLen(slices[i][2])
    ELSE SliceLen(slices[i][2]) + CoreRunTime(tk, sw, slices, i + 1)

\* a variant that charges the switch time at each change of task
CoreRunTimeTaskSwitch(tk, sw, slices, i) ==
    IF i = Len(slices) THEN SliceLen(slices[i][2])
    ELSE SliceLen(slices[i][2])
         + (IF slices[i][1][1] # slices[i + 1][1][1] THEN sw ELSE 0)
         + CoreRunTime(tk, sw, slices, i + 1)

\* core_run_time: the slice lengths, plus switch_time at each change of criticality
CoreRunTime(tk, sw, slices, i) ==
    IF i = Len(slices) THEN SliceLen(slices[i][2])
    ELSE SliceLen(slices[i][2])
         + (IF tk[slices[i][1][1]].criticality # tk[slices[i + 1][1][1]].criticality THEN sw ELSE 0)
         + CoreRunTime(tk, sw, slices, i + 1)

RECURSIVE IdleOf(_, _, _, _)
IdleOf(tk, sw, ex, cs) ==
    IF cs = <<>> THEN 0
    ELSE LET on == {j \in DOMAIN ex : tk[j[1]].core = Head(cs)}
             slices == SortPairs(UNION {{<<j, s>> : s \in ex[j]} : j \in on})
         IN  (_compute_hyperperiod(tk) - CoreRunTime(tk, sw, slices, 1)) + IdleOf(tk, sw, ex, Tail(cs))

\* objective.cumulated_empty_space of a solution whose cores all hold slices
cumulated_empty_space(tk, sw, ex) == IdleOf(tk, sw, ex, SeqOfInts(Cores(tk)))

\* what an objective hands back: a score, or the exception it raised
Scored(n) == [err |-> "none", value |-> n]
ScoreRaised(e) == [err |-> e, value |-> 0]

\* the least and the greatest element of a non-empty set of integers
MinOf(S) == CHOOSE x \in S : \A y \in S : x <= y
MaxOf(S) == CHOOSE x \in S : \A y \in S : y <= x

\* one round of the loop of min_app_delay: the delay of the application
\* with tasks ts, read on the Job objects of Task.jobs
app_delay(tk, ts, ord, gj) ==
    IF ord
    THEN IF gj[LastJob(tk, ts[Len(ts)])] = {} \/ gj[<<ts[1], 0>>] = {}
         THEN ScoreRaised("IndexError")
         ELSE Scored(LastSlice(gj[LastJob(tk, ts[Len(ts)])]).stop - FirstSlice(gj[<<ts[1], 0>>]).start)
    ELSE IF \E t \in SeqToSet(ts) : gj[<<t, 0>>] = {} \/ gj[LastJob(tk, t)] = {}
         THEN ScoreRaised("IndexError")
         ELSE LET earliest_start ==
                      MinOf({_compute_hyperperiod(tk)}
                                \cup {FirstSlice(gj[<<t, 0>>]).start : t \in SeqToSet(ts)})
                  latest_stop ==
                      MaxOf({0} \cup {LastSlice(gj[LastJob(tk, t)]).stop : t \in SeqToSet(ts)})
              IN  IF earliest_start < latest_stop
                  THEN Scored(latest_stop - earliest_start)
                  ELSE ScoreRaised("AssertionError")

RECURSIVE SumDelays(_, _, _, _, _)
\* the loop of min_app_delay over the applications, from the i-th on
SumDelays(tk, ap, ord, gj, i) ==
    IF i > Len(ap) THEN Scored(0)
    ELSE LET d == app_delay(tk, ap[i], ord, gj)
             rest == SumDelays(tk, ap, ord, gj, i + 1)
         IN  IF d.err # "none" THEN d
             ELSE IF rest.err # "none" THEN rest
             ELSE Scored(d.value + rest.value)

\* objective.min_app_delay
min_app_delay(tk, ap, ord, gj) == SumDelays(tk, ap, ord, gj, 1)

(* ------------------------------------------------------------ admission *)

\* the security margin 0.9 of both algorithms, as a fraction
MarginNum == 9
MarginDen == 10

\* workloads and bounds are kept as exact fractions
Rat(n, d) == [num |-> n, den |-> d]
RatAdd(a, b) == Rat(a.num * b.den + b.num * a.den, a.den * b.den)
RatGt(a, b) == a.num * b.den > b.num * a.den
RatLe(a, b) == a.num * b.den <= b.num * a.den

\* Task.workload
workload(t) == Rat(t.wcet, t.period)

RECURSIVE fsum_workload(_, _)
\* fsum(task.workload for task in tasks)
fsum_workload(tasks, i) ==
    IF i > Len(tasks) THEN Rat(0, 1) ELSE RatAdd(workload(tasks[i]), fsum_workload(tasks, i + 1))

RECURSIVE len_cores(_)
\* len([core for cpu in arch for core in cpu])
len_cores(ar) == IF ar = <<>> THEN 0 ELSE Head(ar) + len_cores(Tail(ar))

None == <<>>

\* a variant that also turns down a workload equal to the condition
_local_check_ge(total_workload, sufficient_condition) ==
    IF RatLe(total_workload, sufficient_condition) /\ ~RatLe(sufficient_condition, total_workload)
    THEN None
    ELSE <<total_workload, sufficient_condition>>

_local_check(total_workload, sufficient_condition) ==
    IF RatGt(total_workload, sufficient_condition)
    THEN <<total_workload, sufficient_condition>>
    ELSE None

_local_check_edf(cores, tasks, security_margin) ==
    _local_check(fsum_workload(tasks, 1), Rat(cores * security_margin.num, security_margin.den))

RECURSIVE Pow(_, _)
Pow(b, n) == IF n = 0 THEN 1 ELSE b * Pow(b, n - 1)

\* _local_check_rm: the condition cores * margin * n * (2^(1/n) - 1) is not
\* a fraction, so it is kept as its factors [cores, margin, n]; the workload
\* w exceeds it exactly when (w / (cores * margin * n) + 1)^n > 2
\* (x / y is w / (cores * margin * n) in lowest terms)
_local_check_rm(cores, tasks, security_margin) ==
    LET w == fsum_workload(tasks, 1)
        n == Len(tasks)
        g == Gcd(w.num, w.den)
        p == (w.num \div g) * security_margin.den
        q == (w.den \div g) * cores * security_margin.num * n
        x == p \div Gcd(p, q)
        y == q \div Gcd(p, q)
    IN  IF Pow(x + y, n) > 2 * Pow(y, n)
        THEN <<w, [cores |-> cores, margin |-> security_margin, n |-> n]>>
        ELSE None

\* algorithms[a].local_scheduling_check
local_scheduling_check(a, cores, tasks, security_margin) ==
    IF a = "edf" THEN _local_check_edf(cores, tasks, security_margin)
    ELSE _local_check_rm(cores, tasks, security_margin)

\* SchedAlgorithm.global_scheduling_check of the "edf" entry of algorithms
global_scheduling_check(ar, tk) == _local_check_edf(len_cores(ar), tk, Rat(MarginNum, MarginDen))

\* scheduler.global_schedulability_test: True, or the RuntimeError whose
\* message gives the total workload and the sufficient condition
global_schedulability_test(ar, tk) ==
    LET total_workload == fsum_workload(tk, 1)
        sufficient_condition == Rat(len_cores(ar) * MarginNum, MarginDen)
    IN  IF RatLe(total_workload, sufficient_condition)
        THEN [raised |-> FALSE, args |-> None]
        ELSE [raised |-> TRUE, args |-> <<total_workload, sufficient_condition>>]

(* ------------------------------------------------------------ optimiser *)

\* a variant that leaves the window where it is
NoMove(ew, j, s) == ew

\* a variant that moves the start of the window the other way
MoveBack(ew, j, s) == [ew EXCEPT ![j] = Slice(@.start - s, @.stop)]

\* the exec_window of job j starts s later
MoveStart(ew, j, s) == [ew EXCEPT ![j] = Slice(@.start + s, @.stop)]

RECURSIVE SumOffsets(_, _, _)
SumOffsets(tk, ew, js) ==
    IF js = {} THEN 0
    ELSE LET j == CHOOSE x \in js : TRUE
         IN (ew[j].start - sched_window(tk, j).start) + SumOffsets(tk, ew, js \ {j})

\* the sum of Job.offset over the jobs of a solution
offset_sum(tk, ew) == SumOffsets(tk, ew, DOMAIN ew)

\* the neighbour of the solution with windows ew got by moving job j:
\* cloned, moved, scheduled from empty executions, checked, scored
Neighbour(tk, ord, a, sw, s, ew, gj, j) ==
    CHOOSE out \in
        {(CHOOSE n \in
              {[ok |-> ok, raised |-> ~r.ok, moved |-> j, exec_window |-> w,
                execution |-> r.ex,
                score |-> IF ok THEN cumulated_empty_space(tk, sw, r.ex) ELSE 0,
                offset_sum |-> offset_sum(tk, w)] :
                   ok \in {r.ok /\ is_feasible(tk, ord, w, r.ex, gj)}} : TRUE) :
            <<w, r>> \in {<<v, schedule(tk, a, v, [x \in DOMAIN ew |-> {}])>> :
                              v \in {MoveStart(ew, j, s)}}} : TRUE

\* the jobs whose window still has slack for a move
Movable(tk, s, ew) == {j \in DOMAIN ew : SliceLen(ew[j]) >= tk[j[1]].wcet + s}

\* every neighbour that is built, kept or not
Built(tk, ord, a, sw, s, ew, gj) ==
    {Neighbour(tk, ord, a, sw, s, ew, gj, j) : j \in Movable(tk, s, ew)}

\* a variant that gives up the whole generation when one neighbour fails
neighbours_all_or_none(tk, ord, a, sw, s, ew, gj) ==
    IF \A c \in Built(tk, ord, a, sw, s, ew, gj) : c.ok
    THEN Built(tk, ord, a, sw, s, ew, gj) ELSE {}

\* a variant that keeps every neighbour that was built
neighbours_unchecked(tk, ord, a, sw, s, ew, gj) == Built(tk, ord, a, sw, s, ew, gj)

\* the candidates of one generation: a neighbour whose scheduling failed or
\* that missed the feasibility check is discarded
neighbours(tk, ord, a, sw, s, ew, gj) ==
    {c \in Built(tk, ord, a, sw, s, ew, gj) : c.ok}

\* the candidates that may stand first once sorted: "cumulated_free" compares
\* scores with gt, and all candidates of a generation have the same offset_sum
Heads(cands) == {c \in cands : \A d \in cands : c.score >= d.score}

(* -------------------------------------------------------------- actions *)

MaxPeriod == CHOOSE p \in Periods : \A q \in Periods : q <= p

TaskRecs ==
    {r \in [wcet : 1 .. MaxWcet, period : Periods, deadline : 1 .. MaxPeriod,
            criticality : Crits, core : CoreIds] :
        r.wcet <= r.deadline /\ r.deadline <= r.period}

Empty(tk) == [j \in _create_jobs(tk) |-> {}]

NotRun == [test |-> "none", result |-> None]
NotChecked == [feasible |-> FALSE, job |-> <<>>]
NoBest == [score |-> 0, via |-> "none"]
NoSolution == [found |-> 0]
NoCandidate == [built |-> FALSE]
NotCompared == [done |-> FALSE]

\* Core.tasks of every core that holds tasks of the table tk
CoreTasksOf(tk) == [c \in Cores(tk) |-> SeqOfInts({t \in DOMAIN tk : tk[t].core = c})]

\* mapper._get_core: the core whose task list holds task t
_get_core(ct, t) == CHOOSE c \in DOMAIN ct : t \in SeqToSet(ct[c])

\* mapper.get_alteration_possibilities: for each application of at least two
\* tasks that sits on at least two cores, core -> the tasks it has there
get_alteration_possibilities(ap, ct) ==
    [a \in {x \in 1 .. Len(ap) :
               /\ Len(ap[x]) >= 2
               /\ Cardinality({_get_core(ct, t) : t \in SeqToSet(ap[x])}) >= 2} |->
        [c \in {_get_core(ct, t) : t \in SeqToSet(ap[a])} |->
            {t \in SeqToSet(ap[a]) : _get_core(ct, t) = c}]]

\* the mapper has run: one application holds the tasks, on one processor;
\* the alteration table has been built
Mapped(tk) ==
    /\ apps = <<SeqOfInts(DOMAIN tk)>>
    /\ cpu_apps = <<{1}>>
    /\ core_tasks = CoreTasksOf(tk)
    /\ cpu_pqueue = <<>>
    /\ next_app = 0
    /\ mapped = [c \in Cores(tk) |-> core_jobs(tk, c)]
    /\ possibilities = get_alteration_possibilities(<<SeqOfInts(DOMAIN tk)>>, CoreTasksOf(tk))

\* a problem after import and mapping: every job has its scheduling window
\* as execution window and no slice
Init ==
    /\ task \in {f \in [TaskIds -> TaskRecs] : f[1].core = 1}
    /\ order \in BOOLEAN
    /\ alg \in Algorithms
    /\ step \in 1 .. MaxStep
    /\ switch_time \in 0 .. MaxSwitch
    /\ arch = <<Cardinality(CoreIds)>>
    /\ exec_window = [j \in _create_jobs(task) |-> sched_window(task, j)]
    /\ execution = Empty(task)
    /\ graph_jobs = Empty(task)
    /\ prev = Empty(task)
    /\ pc = "ready"
    /\ cur = [core |-> 0, idx |-> 0]
    /\ narrowed = 0
    /\ runs = 0
    /\ admission = NotRun
    /\ verdict = NotChecked
    /\ compared = NotCompared
    /\ current_best = NoBest
    /\ generations = <<>>
    /\ returned = NoSolution
    /\ candidate = NoCandidate
    /\ Mapped(task)

FirstCore == CHOOSE c \in Cores(task) : \A d \in Cores(task) : c <= d

\* the jobs of core c in the order schedule() places them
Ordered(c) == ordering(task, alg, core_jobs(task, c))

\* schedule() is entered on the current map
Schedule ==
    /\ pc = "ready"
    /\ pc' = "running"
    /\ cur' = [core |-> FirstCore, idx |-> 1]
    /\ runs' = runs + 1
    /\ UNCHANGED <<task, order, alg, step, switch_time, arch, exec_window, execution,
                   narrowed, prev, graph_jobs, admission, verdict, current_best>>
    /\ UNCHANGED optvars
    /\ UNCHANGED <<mapvars, compared>>

\* where schedule() goes after the job at cur: the next job, the next core, the end
Advance ==
    IF cur.idx < Len(Ordered(cur.core)) THEN [pc |-> "running", cur |-> [cur EXCEPT !.idx = @ + 1]]
    ELSE IF \E c \in Cores(task) : c > cur.core
         THEN [pc |-> "running",
               cur |-> [core |-> CHOOSE c \in Cores(task) :
                                    c > cur.core /\ \A d \in Cores(task) : d > cur.core => c <= d,
                        idx |-> 1]]
    ELSE [pc |-> "done", cur |-> cur]

\* one iteration of _create_execution_slices inside schedule()
Place ==
    /\ pc = "running"
    /\ LET job == Ordered(cur.core)[cur.idx]
           r == PlaceJob(task, exec_window, execution, job, Ordered(cur.core))
       IN  IF r.err # "none"
           THEN /\ pc' = r.err
                /\ UNCHANGED <<cur, execution, graph_jobs>>
           ELSE /\ execution' = [execution EXCEPT ![job] = @ \cup r.add]
                /\ graph_jobs' = IF narrowed = 0
                                 THEN [graph_jobs EXCEPT ![job] = @ \cup r.add]
                                 ELSE graph_jobs
                /\ pc' = Advance.pc
                /\ cur' = Advance.cur
    /\ UNCHANGED <<task, order, alg, step, switch_time, arch, exec_window, narrowed, runs,
                   prev, admission, verdict, current_best>>
    /\ UNCHANGED optvars
    /\ UNCHANGED <<mapvars, compared>>

\* the optimiser prepares a neighbour of a feasible solution: deep clone of
\* the map (Job.__deepcopy__ gives each clone an empty execution), then the
\* exec_window of job j starts step later
MoveWindow(j) ==
    /\ pc = "done"
    /\ narrowed < MaxNarrow
    /\ is_feasible(task, order, exec_window, execution, graph_jobs)
    /\ j \in Movable(task, step, exec_window)
    /\ exec_window' = MoveStart(exec_window, j, step)
    /\ execution' = Empty(task)
    /\ prev' = Empty(task)
    /\ narrowed' = narrowed + 1
    /\ runs' = 0
    /\ pc' = "ready"
    /\ cur' = [core |-> 0, idx |-> 0]
    /\ UNCHANGED <<task, order, alg, step, switch_time, arch, graph_jobs, admission,
                   verdict, current_best>>
    /\ UNCHANGED optvars
    /\ UNCHANGED <<mapvars, compared>>

\* schedule() is called a second time on the map it has just scheduled
Rerun ==
    /\ pc = "done"
    /\ runs = 1
    /\ prev' = execution
    /\ runs' = 2
    /\ pc' = "running"
    /\ cur' = [core |-> FirstCore, idx |-> 1]
    /\ UNCHANGED <<task, order, alg, step, switch_time, arch, exec_window, execution,
                   narrowed, graph_jobs, admission, verdict, current_best>>
    /\ UNCHANGED optvars
    /\ UNCHANGED <<mapvars, compared>>

Next == Schedule \/ Place \/ \E j \in DOMAIN exec_window : MoveWindow(j)

Spec == Init /\ [][Next]_vars

NextRerun == Next \/ Rerun

SpecRerun == Init /\ [][NextRerun]_vars

(* ---------------------------------------------- the admission test alone *)

AdmTaskRecs ==
    {r \in [wcet : 1 .. MaxWcet, period : AdmPeriods, deadline : AdmPeriods,
            criticality : {0}, core : {1}] :
        r.wcet <= r.period /\ r.deadline = r.period}

\* a problem as imported: some tasks, some processors with their cores
InitAdm ==
    /\ task \in UNION {[1 .. n -> AdmTaskRecs] : n \in 1 .. MaxTasks}
    /\ arch \in UNION {[1 .. n -> 1 .. MaxCoresPerCpu] : n \in 1 .. MaxCpus}
    /\ order = FALSE
    /\ alg = "edf"
    /\ step = 1
    /\ switch_time = 0
    /\ exec_window = <<>>
    /\ execution = <<>>
    /\ graph_jobs = <<>>
    /\ prev = <<>>
    /\ pc = "imported"
    /\ cur = [core |-> 0, idx |-> 0]
    /\ narrowed = 0
    /\ runs = 0
    /\ admission = NotRun
    /\ verdict = NotChecked
    /\ compared = NotCompared
    /\ current_best = NoBest
    /\ generations = <<>>
    /\ returned = NoSolution
    /\ candidate = NoCandidate
    /\ Mapped(task)

Admitted(test, result) ==
    /\ admission' = [test |-> test, result |-> result]
    /\ pc' = IF result = None THEN "admitted" ELSE "rejected"
    /\ UNCHANGED <<task, order, alg, step, switch_time, arch, exec_window, execution, cur,
                   narrowed, runs, prev, graph_jobs, verdict, current_best>>
    /\ UNCHANGED optvars
    /\ UNCHANGED <<mapvars, compared>>

\* algorithms["edf"].global_scheduling_check(arch, graph)
GlobalSchedulingCheck ==
    /\ pc = "imported"
    /\ Admitted("global_scheduling_check", global_scheduling_check(arch, task))

\* scheduler.global_schedulability_test(problem)
GlobalSchedulabilityTest ==
    /\ pc = "imported"
    /\ Admitted("global_schedulability_test", global_schedulability_test(arch, task).args)

NextAdm == GlobalSchedulingCheck \/ GlobalSchedulabilityTest

SpecAdm == InitAdm /\ [][NextAdm]_vars

(* ----------------------------------------- the feasibility checker alone *)

\* the slices up to time n
Slices(n) == {s \in {Slice(a, b) : a \in 0 .. n, b \in 0 .. n} : s.start < s.stop}

\* the sets of at most k pairwise disjoint slices up to time n
RECURSIVE Executions(_, _)
Executions(n, k) ==
    IF k = 0 THEN {{}}
    ELSE Executions(n, k - 1) \cup
         UNION {{e \cup {s} : s \in {x \in Slices(n) :
                                        \A y \in e : x.stop <= y.start \/ y.stop <= x.start}} :
                e \in Executions(n, k - 1)}

\* the windows the optimiser can have made of the scheduling windows
Windows(tk) ==
    {w \in {[j \in _create_jobs(tk) |-> Slice(sched_window(tk, j).start + o[j], sched_window(tk, j).stop)] :
                o \in [_create_jobs(tk) -> 0 .. MaxStep]} :
        \A j \in _create_jobs(tk) : SliceLen(w[j]) >= tk[j[1]].wcet}

\* a map in which every job has some execution, scheduled well or not
InitFeas ==
    /\ task \in [TaskIds -> {r \in TaskRecs : /\ r.period = MaxPeriod /\ r.deadline = MaxPeriod
                                              /\ r.criticality = 0 /\ r.core = 1}]
    /\ order \in BOOLEAN
    /\ alg = "edf"
    /\ step = 1
    /\ switch_time = 0
    /\ arch = <<Cardinality(CoreIds)>>
    /\ exec_window \in Windows(task)
    /\ execution \in [_create_jobs(task) -> Executions(MaxPeriod + 1, MaxSlices)]
    /\ graph_jobs = execution
    /\ prev = Empty(task)
    /\ pc = "scheduled"
    /\ cur = [core |-> 0, idx |-> 0]
    /\ narrowed = 0
    /\ runs = 1
    /\ admission = NotRun
    /\ verdict = NotChecked
    /\ compared = NotCompared
    /\ current_best = NoBest
    /\ generations = <<>>
    /\ returned = NoSolution
    /\ candidate = NoCandidate
    /\ Mapped(task)

\* the feasibility checker runs on the map
CheckFeasibility ==
    /\ pc = "scheduled"
    /\ verdict' = [feasible |-> is_feasible(task, order, exec_window, execution, graph_jobs),
                   job |-> [j \in DOMAIN execution |->
                               [miss |-> has_execution_miss(execution[j], exec_window[j]).value,
                                error |-> has_execution_miss(execution[j], exec_window[j]).raised,
                                wcet_miss |-> has_wcet_miss(execution[j], task[j[1]].wcet),
                                accepted |-> JobAccepted(task, exec_window, execution, j)]]]
    /\ pc' = "checked"
    /\ UNCHANGED <<task, order, alg, step, switch_time, arch, exec_window, execution, cur,
                   narrowed, runs, prev, graph_jobs, admission, current_best>>
    /\ UNCHANGED optvars
    /\ UNCHANGED <<mapvars, compared>>

NextFeas == CheckFeasibility

SpecFeas == InitFeas /\ [][NextFeas]_vars

(* ------------------------------------------------- the hill-climbing loop *)

\* the problems the optimiser is given: one or two tasks
InitOpt ==
    /\ task \in UNION {{f \in [1 .. n -> TaskRecs] : f[1].core = 1} : n \in 1 .. Cardinality(TaskIds)}
    /\ order \in BOOLEAN
    /\ alg \in Algorithms
    /\ step \in 1 .. MaxStep
    /\ switch_time \in 0 .. MaxSwitch
    /\ arch = <<Cardinality(CoreIds)>>
    /\ exec_window = [j \in _create_jobs(task) |-> sched_window(task, j)]
    /\ execution = Empty(task)
    /\ graph_jobs = Empty(task)
    /\ prev = Empty(task)
    /\ pc = "ready"
    /\ cur = [core |-> 0, idx |-> 0]
    /\ narrowed = 0
    /\ runs = 0
    /\ admission = NotRun
    /\ verdict = NotChecked
    /\ compared = NotCompared
    /\ current_best = NoBest
    /\ generations = <<>>
    /\ returned = NoSolution
    /\ candidate = NoCandidate
    /\ Mapped(task)

\* a generation: its candidates, the one that stands first, and the
\* neighbours that were discarded while it was built
Generation(head, members, discarded) ==
    [head |-> head, members |-> members, discarded |-> discarded]

\* the seed solution: the initial windows with the executions ex
Seed(ex) ==
    [ok |-> TRUE, raised |-> FALSE, moved |-> <<>>, exec_window |-> exec_window,
     execution |-> ex, score |-> cumulated_empty_space(task, switch_time, ex),
     offset_sum |-> offset_sum(task, exec_window)]

\* the seed: the initial map is scheduled, checked and scored
OptSeed ==
    /\ pc = "ready"
    /\ LET r == schedule(task, alg, exec_window, execution) IN
       IF r.ok /\ is_feasible(task, order, exec_window, r.ex, r.ex)
       THEN /\ execution' = r.ex
            /\ graph_jobs' = r.ex
            /\ current_best' = [score |-> cumulated_empty_space(task, switch_time, r.ex),
                                via |-> "seed"]
            /\ generations' = <<Generation(Seed(r.ex), {Seed(r.ex)}, {})>>
            /\ pc' = "climb"
       ELSE /\ pc' = "unschedulable"
            /\ UNCHANGED <<execution, graph_jobs, current_best, generations>>
    /\ UNCHANGED <<task, order, alg, step, switch_time, arch, exec_window, cur, narrowed,
                   runs, prev, admission, verdict, returned>>
    /\ UNCHANGED candidate
    /\ UNCHANGED <<mapvars, compared>>

Candidates == neighbours(task, order, alg, switch_time, step, exec_window, graph_jobs)

\* candidates[0] is better than the current best, or equal: a new generation
OptGeneration ==
    /\ pc = "climb"
    /\ \E built \in {Built(task, order, alg, switch_time, step, exec_window, graph_jobs)} :
       \E cands \in {Candidates} :
       \E c \in Heads(cands) :
          /\ c.score >= current_best.score
          /\ exec_window' = c.exec_window
          /\ execution' = c.execution
          /\ current_best' = [score |-> c.score,
                              via |-> IF c.score > current_best.score THEN "better" ELSE "equal"]
          /\ generations' = Append(generations, Generation(c, cands, built \ cands))
    /\ narrowed' = narrowed + 1
    /\ UNCHANGED <<task, order, alg, step, switch_time, arch, pc, cur, runs, prev,
                   graph_jobs, admission, verdict, returned>>
    /\ UNCHANGED candidate
    /\ UNCHANGED <<mapvars, compared>>

\* a variant that returns the head of the last generation
ReturnLast(gens) == [found |-> Len(gens), solution |-> gens[Len(gens)].head]

\* what the optimiser returns: of the generations whose head has the final
\* best score, the head of the one found first
Return(gens) ==
    LET best == gens[Len(gens)].head.score
        g == CHOOSE i \in 1 .. Len(gens) :
                /\ gens[i].head.score = best
                /\ \A k \in 1 .. (i - 1) : gens[k].head.score # best
    IN  [found |-> g, solution |-> gens[g].head]

\* a variant that also stops on a candidate equal to the current best
OptStopNotBetter ==
    /\ pc = "climb"
    /\ \A cands \in {Candidates} : \A c \in Heads(cands) : c.score <= current_best.score
    /\ pc' = "stop"
    /\ returned' = Return(generations)
    /\ UNCHANGED <<task, order, alg, step, switch_time, arch, exec_window, execution, cur,
                   narrowed, runs, prev, graph_jobs, admission, verdict, current_best,
                   generations>>
    /\ UNCHANGED candidate
    /\ UNCHANGED <<mapvars, compared>>

\* no candidate, or candidates[0] is worse than the current best: stop
OptStop ==
    /\ pc = "climb"
    /\ \A cands \in {Candidates} : \A c \in Heads(cands) : c.score < current_best.score
    /\ pc' = "stop"
    /\ returned' = Return(generations)
    /\ UNCHANGED <<task, order, alg, step, switch_time, arch, exec_window, execution, cur,
                   narrowed, runs, prev, graph_jobs, admission, verdict, current_best,
                   generations>>
    /\ UNCHANGED candidate
    /\ UNCHANGED <<mapvars, compared>>

NextOpt == OptSeed \/ OptGeneration \/ OptStop

SpecOpt == InitOpt /\ [][NextOpt]_vars

(* ------------------------------------------- a neighbour with a task swap *)

RECURSIVE Remove(_, _)
\* list.remove(x): the first occurrence of x goes
Remove(l, x) ==
    IF l = <<>> THEN <<>>
    ELSE IF Head(l) = x THEN Tail(l) ELSE <<Head(l)>> \o Remove(Tail(l), x)

\* what alter_mapping can draw: an application, two distinct cores of it in
\* some order, one task of each
AlterChoices(poss, ap, ct) ==
    LET ts == UNION {SeqToSet(ap[a]) : a \in DOMAIN ap}
    IN  {ch \in [app : DOMAIN poss, cores : (DOMAIN ct) \X (DOMAIN ct), task0 : ts, task1 : ts] :
            /\ ch.cores[1] # ch.cores[2]
            /\ ch.cores[1] \in DOMAIN poss[ch.app]
            /\ ch.cores[2] \in DOMAIN poss[ch.app]
            /\ ch.task0 \in poss[ch.app][ch.cores[1]]
            /\ ch.task1 \in poss[ch.app][ch.cores[2]]}

RECURSIVE MoveJobsLast(_, _, _)
\* the loop of _swap_tasks over a job list of the neighbour: a job of task t
\* is appended to the list it is in and its first occurrence removed, while
\* the list is being iterated by position
MoveJobsLast(l, i, t) ==
    IF i > Len(l) THEN l
    ELSE IF l[i][1] = t THEN MoveJobsLast(Remove(Append(l, l[i]), l[i]), i + 1, t)
    ELSE MoveJobsLast(l, i + 1, t)

\* mapper._swap_tasks on Core.tasks: the lists of the cores the table names
SwapCoreTasks(ct, ch) ==
    [ct EXCEPT ![ch.cores[1]] = Append(Remove(@, ch.task0), ch.task1),
               ![ch.cores[2]] = Remove(Append(@, ch.task0), ch.task1)]

\* a variant that moves task0 only in the table
SwapTableHalf(poss, ch) ==
    [poss EXCEPT ![ch.app] =
        [@ EXCEPT ![ch.cores[1]] = @ \ {ch.task0},
                  ![ch.cores[2]] = @ \cup {ch.task0}]]

\* mapper._swap_tasks on the alteration table: the two tasks change sets
SwapTable(poss, ch) ==
    [poss EXCEPT ![ch.app] =
        [@ EXCEPT ![ch.cores[1]] = (@ \ {ch.task0}) \cup {ch.task1},
                  ![ch.cores[2]] = (@ \cup {ch.task0}) \ {ch.task1}]]

\* mapper._swap_tasks on the job lists of the neighbour
SwapNeighbourJobs(cj, ch) ==
    [cj EXCEPT ![ch.cores[1]] = MoveJobsLast(@, 1, ch.task0),
               ![ch.cores[2]] = MoveJobsLast(@, 1, ch.task1)]

\* a variant that lets every core pass
CoreCheckSkipped(tk, a, ct, c) == TRUE

\* the local test of the policy on one core and the tasks it holds
CoreCheck(tk, a, ct, c) ==
    local_scheduling_check(a, 1, [i \in 1 .. Len(ct[c]) |-> tk[ct[c][i]]], Rat(MarginNum, MarginDen))
        = None

NoSwap == [app |-> 0]

\* a neighbour of the current solution is built: deep copy of the map (the
\* copy of a core shares Core.tasks, the copy of a job has its own empty
\* execution), job j's window moved, perhaps a swap drawn by alter_mapping,
\* then schedule(), the feasibility check, and the neighbour kept or dropped
BuildNeighbour(j, ch) ==
    /\ pc = "climb"
    /\ j \in Movable(task, step, exec_window)
    /\ ch \in AlterChoices(possibilities, apps, core_tasks) \cup {NoSwap}
    /\ LET w == MoveStart(exec_window, j, step)
           ct == IF ch = NoSwap THEN core_tasks ELSE SwapCoreTasks(core_tasks, ch)
           cj == IF ch = NoSwap THEN mapped ELSE SwapNeighbourJobs(mapped, ch)
           local == \/ ch = NoSwap
                    \/ /\ CoreCheck(task, alg, ct, ch.cores[1])
                       /\ CoreCheck(task, alg, ct, ch.cores[2])
           r == schedule_map(task, alg, w, [x \in DOMAIN exec_window |-> {}], cj)
       IN  /\ core_tasks' = ct
           /\ possibilities' = IF ch = NoSwap THEN possibilities ELSE SwapTable(possibilities, ch)
           /\ candidate' = [built |-> TRUE, moved |-> j, swap |-> ch, exec_window |-> w,
                            core_jobs |-> cj,
                            execution |-> IF local THEN r.ex ELSE [x \in DOMAIN exec_window |-> {}],
                            accepted |-> /\ local
                                         /\ r.ok
                                         /\ is_feasible(task, order, w, r.ex, graph_jobs)]
    /\ UNCHANGED <<task, order, alg, step, switch_time, arch, exec_window, execution, pc, cur,
                   narrowed, runs, prev, graph_jobs, admission, verdict, current_best,
                   generations, returned, apps, cpu_apps, cpu_pqueue, next_app, mapped,
                   compared>>

NextSwap ==
    \/ OptSeed
    \/ \E j \in DOMAIN exec_window : \E ch \in AlterChoices(possibilities, apps, core_tasks) \cup {NoSwap} :
          BuildNeighbour(j, ch)

SpecSwap == InitOpt /\ [][NextSwap]_vars

(* ------------------------------------------------------------ the mapper *)

RatLt(a, b) == a.num * b.den < b.num * a.den

\* the records of the tasks whose ids the list ts holds
TasksOf(tk, ts) == [i \in 1 .. Len(ts) |-> tk[ts[i]]]

\* Core.workload of core c under the task lists ct
core_workload(tk, ct, c) == fsum_workload(TasksOf(tk, ct[c]), 1)

RECURSIVE SumCores(_, _, _, _)
SumCores(tk, ct, p, i) ==
    IF i > Len(p.cores) THEN Rat(0, 1)
    ELSE RatAdd(core_workload(tk, ct, <<p.id, p.cores[i]>>), SumCores(tk, ct, p, i + 1))

\* Processor.workload; a processor p is [id, cores], cores being the ids of
\* its cores in the iteration order of the set Processor.cores
cpu_workload(tk, ct, p) == SumCores(tk, ct, p, 1)

\* Processor.__lt__
cpu_lt(tk, ct, p, q) == RatLt(cpu_workload(tk, ct, p), cpu_workload(tk, ct, q))

\* a variant that takes the last core in iteration order
last_core(tk, ct, p) == <<p.id, p.cores[Len(p.cores)]>>

\* a variant that takes the first core in iteration order
first_core(tk, ct, p) == <<p.id, p.cores[1]>>

\* Processor.min_core: min(self) keeps the first core, in iteration order,
\* that no later core is strictly below
min_core(tk, ct, p) ==
    LET i == CHOOSE x \in 1 .. Len(p.cores) :
                 /\ \A y \in 1 .. Len(p.cores) :
                       ~RatLt(core_workload(tk, ct, <<p.id, p.cores[y]>>),
                              core_workload(tk, ct, <<p.id, p.cores[x]>>))
                 /\ \A y \in 1 .. (x - 1) :
                       RatLt(core_workload(tk, ct, <<p.id, p.cores[x]>>),
                             core_workload(tk, ct, <<p.id, p.cores[y]>>))
    IN  <<p.id, p.cores[i]>>

RECURSIVE _siftdown(_, _, _, _, _, _)
\* heapq._siftdown with positions from 0: newitem moves up from pos while
\* it is below its parent
_siftdown(tk, ct, heap, startpos, pos, newitem) ==
    LET parentpos == (pos - 1) \div 2
    IN  IF pos > startpos /\ cpu_lt(tk, ct, newitem, heap[parentpos + 1])
        THEN _siftdown(tk, ct, [heap EXCEPT ![pos + 1] = heap[parentpos + 1]],
                       startpos, parentpos, newitem)
        ELSE [heap EXCEPT ![pos + 1] = newitem]

RECURSIVE _siftup(_, _, _, _, _, _)
\* heapq._siftup: the smaller child is pulled up until a leaf is hit, then
\* newitem is sifted down from there
_siftup(tk, ct, heap, startpos, pos, newitem) ==
    LET childpos == 2 * pos + 1
        rightpos == childpos + 1
        c == IF rightpos < Len(heap) /\ ~cpu_lt(tk, ct, heap[childpos + 1], heap[rightpos + 1])
             THEN rightpos ELSE childpos
    IN  IF childpos < Len(heap)
        THEN _siftup(tk, ct, [heap EXCEPT ![pos + 1] = heap[c + 1]], startpos, c, newitem)
        ELSE _siftdown(tk, ct, heap, startpos, pos, newitem)

\* PriorityQueue.put: heapq.heappush
put(tk, ct, heap, item) == _siftdown(tk, ct, Append(heap, item), 0, Len(heap), item)

\* PriorityQueue.get: heapq.heappop, the item and the heap left
get(tk, ct, heap) ==
    LET lastelt == heap[Len(heap)]
        rest == SubSeq(heap, 1, Len(heap) - 1)
    IN  IF rest = <<>> THEN [item |-> lastelt, heap |-> rest]
        ELSE [item |-> rest[1], heap |-> _siftup(tk, ct, rest, 0, 0, lastelt)]

RECURSIVE PutAll(_, _, _, _, _)
\* for cpu in arch: cpu_pqueue.put(cpu)
PutAll(tk, ct, heap, cpus, i) ==
    IF i > Len(cpus) THEN heap
    ELSE PutAll(tk, ct, put(tk, ct, heap, cpus[i]), cpus, i + 1)

RECURSIVE AppendTasks(_, _, _, _, _)
\* for task in app: cpu.min_core().tasks.append(task)
AppendTasks(tk, ct, p, ts, i) ==
    IF i > Len(ts) THEN ct
    ELSE AppendTasks(tk, [ct EXCEPT ![min_core(tk, ct, p)] = Append(@, ts[i])], p, ts, i + 1)

\* the cores of the architecture ar: <<processor id, core id>>
AllCores(ar) == UNION {{<<c, k>> : k \in 1 .. ar[c]} : c \in 1 .. Len(ar)}

\* the orders a set of n objects can be iterated in
Perms(n) == {f \in [1 .. n -> 1 .. n] : \A x, y \in 1 .. n : f[x] = f[y] => x = y}

\* the ways to group tasks 1 .. n into applications, tasks in id order
Groupings(n) ==
    {f \in [1 .. n -> 1 .. n] :
        /\ f[1] = 1
        /\ \A t \in 1 .. (n - 1) : f[t + 1] \in {f[t], f[t] + 1}}

AppsOf(n, f) == [a \in 1 .. f[n] |-> SeqOfInts({t \in 1 .. n : f[t] = a})]

\* a variant that tests the application against a single core
mapping_check_one_core(tk, a, p, ts) ==
    local_scheduling_check(a, 1, TasksOf(tk, ts), Rat(MarginNum, MarginDen))

\* a variant in which mapping() lets every application pass
mapping_unchecked(tk, a, p, ts) == None

\* the local test mapping() makes: the cores of the processor, the tasks of
\* the application
mapping_check(tk, a, p, ts) ==
    local_scheduling_check(a, Len(p.cores), TasksOf(tk, ts), Rat(MarginNum, MarginDen))

\* the tasks of the problems given to the mapper: any criticality
MapTaskRecs ==
    {r \in [wcet : 1 .. MaxWcet, period : AdmPeriods, deadline : AdmPeriods,
            criticality : Crits, core : {1}] :
        r.wcet <= r.period /\ r.deadline = r.period}

\* a problem as imported, nothing mapped: the applications stand in the
\* order of the task file
InitMap ==
    /\ task \in UNION {[1 .. n -> MapTaskRecs] : n \in 1 .. MaxTasks}
    /\ arch \in UNION {[1 .. n -> 1 .. MaxCoresPerCpu] : n \in 1 .. MaxCpus}
    /\ order = FALSE
    /\ alg \in Algorithms
    /\ step = 1
    /\ switch_time = 0
    /\ exec_window = <<>>
    /\ execution = <<>>
    /\ graph_jobs = <<>>
    /\ prev = <<>>
    /\ pc = "imported"
    /\ cur = [core |-> 0, idx |-> 0]
    /\ narrowed = 0
    /\ runs = 0
    /\ admission = NotRun
    /\ verdict = NotChecked
    /\ compared = NotCompared
    /\ current_best = NoBest
    /\ generations = <<>>
    /\ returned = NoSolution
    /\ candidate = NoCandidate
    /\ apps \in {AppsOf(Len(task), f) : f \in Groupings(Len(task))}
    /\ cpu_apps = [c \in 1 .. Len(arch) |-> {}]
    /\ core_tasks = [c \in AllCores(arch) |-> <<>>]
    /\ cpu_pqueue = <<>>
    /\ next_app = 0
    /\ mapped = <<>>
    /\ possibilities = <<>>

\* mapping(), up to its loop over the applications: the processors are put
\* on the queue in the iteration order of the set arch; each processor
\* iterates its set of cores in an order of its own
MapStart(cpus, cores) ==
    /\ pc = "imported"
    /\ cpu_pqueue' = PutAll(task, core_tasks, <<>>,
                            [i \in 1 .. Len(arch) |-> [id |-> cpus[i], cores |-> cores[cpus[i]]]], 1)
    /\ next_app' = 1
    /\ pc' = "mapping"
    /\ UNCHANGED <<task, order, alg, step, switch_time, arch, exec_window, execution, cur,
                   narrowed, runs, prev, graph_jobs, admission, verdict, current_best,
                   apps, cpu_apps, core_tasks, mapped, possibilities, compared>>
    /\ UNCHANGED optvars

\* one round of the loop of mapping(): the least loaded processor is taken
\* off the queue, the application accepted or the RuntimeError raised
MapApp ==
    /\ pc = "mapping"
    /\ next_app <= Len(apps)
    /\ LET g == get(task, core_tasks, cpu_pqueue)
           cpu == g.item
           app == apps[next_app]
       IN  IF cpu_apps[cpu.id] = {} \/ mapping_check(task, alg, cpu, app) = None
           THEN LET ct == AppendTasks(task, core_tasks, cpu, app, 1)
                IN  /\ cpu_apps' = [cpu_apps EXCEPT ![cpu.id] = @ \cup {next_app}]
                    /\ core_tasks' = ct
                    /\ cpu_pqueue' = put(task, ct, g.heap, cpu)
                    /\ next_app' = next_app + 1
                    /\ pc' = pc
           ELSE /\ cpu_pqueue' = g.heap
                /\ pc' = "map_error"
                /\ UNCHANGED <<cpu_apps, core_tasks, next_app>>
    /\ UNCHANGED <<task, order, alg, step, switch_time, arch, exec_window, execution, cur,
                   narrowed, runs, prev, graph_jobs, admission, verdict, current_best,
                   apps, mapped, possibilities, compared>>
    /\ UNCHANGED optvars

\* the end of mapping(): the core -> jobs map of the cores that hold tasks
MapReturn ==
    /\ pc = "mapping"
    /\ next_app > Len(apps)
    /\ mapped' = [c \in {x \in AllCores(arch) : core_tasks[x] # <<>>} |->
                     Flatten(task, core_tasks[c], 1)]
    /\ pc' = "mapped"
    /\ UNCHANGED <<task, order, alg, step, switch_time, arch, exec_window, execution, cur,
                   narrowed, runs, prev, graph_jobs, admission, verdict, current_best,
                   apps, cpu_apps, core_tasks, cpu_pqueue, next_app, possibilities, compared>>
    /\ UNCHANGED optvars

NextMap ==
    \/ \E cpus \in Perms(Len(arch)) :
          \E cores \in [1 .. Len(arch) -> UNION {Perms(n) : n \in 1 .. MaxCoresPerCpu}] :
             /\ \A c \in 1 .. Len(arch) : Len(cores[c]) = arch[c]
             /\ MapStart(cpus, cores)
    \/ MapApp
    \/ MapReturn

SpecMap == InitMap /\ [][NextMap]_vars

(* --------------------------------------------------- the alteration table *)

\* the alteration table is built from the architecture and the graph that
\* mapping() has filled
AlterationTable ==
    /\ pc = "mapped"
    /\ possibilities' = get_alteration_possibilities(apps, core_tasks)
    /\ pc' = "table"
    /\ UNCHANGED <<task, order, alg, step, switch_time, arch, exec_window, execution, cur,
                   narrowed, runs, prev, graph_jobs, admission, verdict, current_best,
                   apps, cpu_apps, core_tasks, cpu_pqueue, next_app, mapped,
                   compared>>
    /\ UNCHANGED optvars

\* mapper.alter_mapping on a copy of the map: an application, two of its
\* cores and one task of each are drawn, _swap_tasks exchanges them in
\* Core.tasks, in the job lists of the copy and in the table, and the local
\* test of the two cores is what is returned
AlterMapping(ch) ==
    /\ pc = "table"
    /\ ch \in AlterChoices(possibilities, apps, core_tasks)
    /\ \E ct \in {SwapCoreTasks(core_tasks, ch)} :
          /\ core_tasks' = ct
          /\ possibilities' = SwapTable(possibilities, ch)
          /\ candidate' = [swap |-> ch,
                           core_jobs |-> SwapNeighbourJobs(mapped, ch),
                           accepted |-> /\ CoreCheck(task, alg, ct, ch.cores[1])
                                        /\ CoreCheck(task, alg, ct, ch.cores[2])]
    /\ UNCHANGED <<task, order, alg, step, switch_time, arch, exec_window, execution, pc, cur,
                   narrowed, runs, prev, graph_jobs, admission, verdict, current_best,
                   generations, returned, apps, cpu_apps, cpu_pqueue, next_app, mapped,
                   compared>>

NextAlter ==
    \/ \E cpus \in Perms(Len(arch)) :
          \E cores \in [1 .. Len(arch) -> UNION {Perms(n) : n \in 1 .. MaxCoresPerCpu}] :
             /\ \A c \in 1 .. Len(arch) : Len(cores[c]) = arch[c]
             /\ MapStart(cpus, cores)
    \/ MapApp
    \/ MapReturn
    \/ AlterationTable
    \/ \E ch \in AlterChoices(possibilities, apps, core_tasks) : AlterMapping(ch)

SpecAlter == InitMap /\ [][NextAlter]_vars

(* ------------------------------------------------- the overlap tests alone *)

\* two slices as the scheduler holds them, windows or slices of an execution:
\* any two intervals with start < stop
InitSlices ==
    /\ task = <<>>
    /\ arch = <<>>
    /\ order = FALSE
    /\ alg = "edf"
    /\ step = 1
    /\ switch_time = 0
    /\ exec_window = <<>>
    /\ execution = <<>>
    /\ graph_jobs = <<>>
    /\ prev = <<>>
    /\ pc = "slices"
    /\ cur = [core |-> 0, idx |-> 0]
    /\ narrowed = 0
    /\ runs = 0
    /\ admission = NotRun
    /\ verdict = NotChecked
    /\ compared \in [done : {FALSE}, slice1 : Slices(MaxStop), slice2 : Slices(MaxStop)]
    /\ current_best = NoBest
    /\ generations = <<>>
    /\ returned = NoSolution
    /\ candidate = NoCandidate
    /\ apps = <<>>
    /\ cpu_apps = <<>>
    /\ core_tasks = <<>>
    /\ cpu_pqueue = <<>>
    /\ next_app = 0
    /\ mapped = <<>>
    /\ possibilities = <<>>

\* the scheduler's test of the two slices, both ways round, and
\* Slice.intersect on the same two
Intersect ==
    /\ pc = "slices"
    /\ compared' = [done |-> TRUE,
                    slice1 |-> compared.slice1,
                    slice2 |-> compared.slice2,
                    _intersect |-> _intersect(compared.slice1, compared.slice2),
                    swapped |-> _intersect(compared.slice2, compared.slice1),
                    intersect |-> intersect(compared.slice1, compared.slice2)]
    /\ pc' = "compared"
    /\ UNCHANGED <<task, order, alg, step, switch_time, arch, exec_window, execution, cur,
                   narrowed, runs, prev, graph_jobs, admission, verdict, current_best>>
    /\ UNCHANGED optvars
    /\ UNCHANGED mapvars

NextSlices == Intersect

SpecSlices == InitSlices /\ [][NextSlices]_vars

(* --------------------------------------------------- the objective alone *)

ObjWcets == {1, 3, 4}
ObjPeriods == {5, 10}

ObjTaskRecs ==
    [wcet : ObjWcets, period : ObjPeriods, deadline : ObjPeriods,
     criticality : Crits, core : CoreIds]

\* a mapped problem of one or two tasks whose deadline is their period
InitObj ==
    /\ task \in UNION {{f \in [1 .. n -> {r \in ObjTaskRecs : r.deadline = r.period}] :
                            f[1].core = 1} : n \in 1 .. Cardinality(TaskIds)}
    /\ order = FALSE
    /\ alg \in Algorithms
    /\ step = 1
    /\ switch_time \in 0 .. MaxSwitch
    /\ arch = <<Cardinality(CoreIds)>>
    /\ exec_window = [j \in _create_jobs(task) |-> sched_window(task, j)]
    /\ execution = Empty(task)
    /\ graph_jobs = Empty(task)
    /\ prev = Empty(task)
    /\ pc = "ready"
    /\ cur = [core |-> 0, idx |-> 0]
    /\ narrowed = 0
    /\ runs = 0
    /\ admission = NotRun
    /\ verdict = NotChecked
    /\ compared = NotCompared
    /\ current_best = NoBest
    /\ generations = <<>>
    /\ returned = NoSolution
    /\ candidate = NoCandidate
    /\ Mapped(task)

\* schedule() on the mapped problem
ObjSchedule ==
    /\ pc = "ready"
    /\ LET r == schedule(task, alg, exec_window, execution) IN
       /\ execution' = r.ex
       /\ pc' = IF r.ok THEN "scheduled" ELSE "unschedulable"
    /\ UNCHANGED <<task, order, alg, step, switch_time, arch, exec_window, cur, narrowed,
                   runs, prev, graph_jobs, admission, verdict, current_best>>
    /\ UNCHANGED optvars
    /\ UNCHANGED <<mapvars, compared>>

\* objectives["cumulated_free"] applied to the scheduled solution
ObjScore ==
    /\ pc = "scheduled"
    /\ current_best' = [score |-> cumulated_empty_space(task, switch_time, execution),
                        via |-> "cumulated_free"]
    /\ pc' = "scored"
    /\ UNCHANGED <<task, order, alg, step, switch_time, arch, exec_window, execution, cur,
                   narrowed, runs, prev, graph_jobs, admission, verdict>>
    /\ UNCHANGED optvars
    /\ UNCHANGED <<mapvars, compared>>

NextObj == ObjSchedule \/ ObjScore

SpecObj == InitObj /\ [][NextObj]_vars

(* --------------------------------------------------- the driver: solve() *)

\* the tasks a problem file can hold for the driver; all on the one core
DrvTaskRecs == {r \in TaskRecs : r.core = 1}

\* the one core of the one processor
TheCore == <<1, 1>>

\* solver._inside
solver_inside(slice1, slice2) == slice2.start <= slice1.start /\ slice1.stop <= slice2.stop

\* solver._intersect
solver_intersect(slice1, slice2) ==
    \/ _overlap_before(slice1, slice2)
    \/ _overlap_after(slice1, slice2)
    \/ solver_inside(slice1, slice2)
    \/ solver_inside(slice2, slice1)

\* algorithms[a][0] of solver.py: the workload of the tasks against the
\* bound of the policy for that many cores
sched_check(a, tasks, cores) ==
    LET w == fsum_workload(tasks, 1)
        n == Len(tasks)
    IN  IF a = "edf" THEN RatLe(w, Rat(cores * MarginNum, MarginDen))
        ELSE Pow(w.num * MarginDen + w.den * cores * MarginNum * n, n)
                 <= 2 * Pow(w.den * cores * MarginNum * n, n)

\* SortedSet.add on the tasks of a core: after the tasks of no higher
\* criticality
AddTask(tk, l, t) ==
    LET k == Cardinality({i \in 1 .. Len(l) : tk[l[i]].criticality <= tk[t].criticality})
    IN  SubSeq(l, 1, k) \o <<t>> \o SubSeq(l, k + 1, Len(l))

RECURSIVE _try_map(_, _, _, _, _)
\* solver._try_map on the one core: before a task is added, the tasks that
\* are already on the core are tested
_try_map(tk, a, tasks, app, i) ==
    IF i > Len(app) THEN [ok |-> TRUE, tasks |-> tasks]
    ELSE IF ~(Len(tasks) = 0 \/ sched_check(a, TasksOf(tk, tasks), 1))
         THEN [ok |-> FALSE, tasks |-> tasks]
         ELSE _try_map(tk, a, AddTask(tk, tasks, app[i]), app, i + 1)

RECURSIVE _initial_mapping(_, _, _, _, _, _)
\* solver._initial_mapping with one processor of one core: the applications
\* in the order of the file; ok is FALSE when the RuntimeError is raised
_initial_mapping(tk, a, ap, i, on_cpu, tasks) ==
    IF i > Len(ap) THEN [ok |-> TRUE, apps |-> on_cpu, tasks |-> tasks]
    ELSE IF on_cpu = {} \/ sched_check(a, TasksOf(tk, ap[i]), 1)
         THEN LET m == _try_map(tk, a, tasks, ap[i], 1)
              IN  IF m.ok THEN _initial_mapping(tk, a, ap, i + 1, on_cpu \cup {i}, m.tasks)
                  ELSE [ok |-> FALSE, apps |-> on_cpu, tasks |-> m.tasks]
         ELSE [ok |-> FALSE, apps |-> on_cpu, tasks |-> tasks]

\* App.criticality: the highest criticality of its tasks
AppCrit(tk, app) ==
    CHOOSE c \in {tk[app[i]].criticality : i \in 1 .. Len(app)} :
        \A i \in 1 .. Len(app) : tk[app[i]].criticality <= c

RECURSIVE SortTasks(_, _, _)
\* algorithms[a][1] of solver.py: sorted(tasks, key=deadline) or key=period
SortTasks(tk, a, ts) ==
    IF ts = <<>> THEN <<>>
    ELSE LET key(t) == IF a = "edf" THEN tk[t].deadline ELSE tk[t].period
             i == CHOOSE x \in 1 .. Len(ts) :
                     /\ \A y \in 1 .. Len(ts) : key(ts[x]) <= key(ts[y])
                     /\ \A y \in 1 .. (x - 1) : key(ts[y]) > key(ts[x])
         IN  <<ts[i]>> \o SortTasks(tk, a, [k \in 1 .. (Len(ts) - 1) |->
                                               IF k < i THEN ts[k] ELSE ts[k + 1]])

RECURSIVE _order_task_cores(_, _, _, _, _)
\* solver._order_task_cores: the applications of the processor by falling
\* criticality, the later of two of one criticality first; the tasks of an
\* ordered application sorted by the policy, else as declared
_order_task_cores(tk, a, ord, ap, rest) ==
    IF rest = {} THEN <<>>
    ELSE LET i == CHOOSE x \in rest : \A y \in rest :
                     \/ AppCrit(tk, ap[x]) > AppCrit(tk, ap[y])
                     \/ (AppCrit(tk, ap[x]) = AppCrit(tk, ap[y]) /\ x >= y)
         IN  (IF ord THEN SortTasks(tk, a, ap[i]) ELSE ap[i])
                 \o _order_task_cores(tk, a, ord, ap, rest \ {i})

\* solver._get_intersect_slices before the check and the sort
solver_intersect_slices(ew, ex, job, c_jobs) ==
    UNION {{[job |-> c, start |-> s.start, stop |-> s.stop] :
                s \in {x \in ex[c] : solver_intersect(ew[job], x)}} :
           c \in {d \in c_jobs : solver_intersect(ew[job], ew[d])}}

\* solver._get_slices: the free time of the window of the job; it reads
\* slices[0] although no slice may intersect the window
solver_get_slices(tk, ew, ex, job, c_jobs) ==
    LET w == ew[job]
        wcet == tk[job[1]].wcet
        found == solver_intersect_slices(ew, ex, job, c_jobs)
        slices == SortByStart(found)
    IN  IF \E x \in found : \E y \in found : x # y /\ solver_intersect(x, y)
        THEN Raised("intersect")
        ELSE IF slices = <<>> THEN Raised("index")
        ELSE LET leading == w.start < slices[1].start
                 space == slices[1].start - w.start
             IN  IF leading /\ wcet <= space
                 THEN Returned(<<Slice(w.start, w.start + wcet)>>)
                 ELSE LET m == MiddleGaps(slices, 1,
                                   IF leading THEN <<Slice(w.start, w.start + space)>> ELSE <<>>,
                                   IF leading THEN wcet - space ELSE wcet)
                      IN  IF m.ret THEN Returned(m.js) ELSE FollowingSpace(w, slices, m)

RECURSIVE ScheduleJobs(_, _, _, _, _, _)
\* the second branch of solver._schedule_task, from job k of task t on
ScheduleJobs(tk, ew, ex, c_jobs, t, k) ==
    IF <<t, k>> \notin DOMAIN ew THEN [err |-> "none", ex |-> ex, c_jobs |-> c_jobs]
    ELSE CHOOSE out \in
             {IF r.err # "none" THEN [err |-> r.err, ex |-> ex, c_jobs |-> c_jobs]
              ELSE IF _get_runtime(r.slices) = tk[t].wcet
                   THEN ScheduleJobs(tk, ew, [ex EXCEPT ![<<t, k>>] = @ \cup SeqToSet(r.slices)],
                                     c_jobs \cup {<<t, k>>}, t, k + 1)
              ELSE IF tk[t].wcet < _get_runtime(r.slices)
                   THEN ScheduleJobs(tk, ew,
                                     [ex EXCEPT ![<<t, k>>] =
                                         @ \cup SeqToSet(_generate_exec_slices(tk[t].wcet, r.slices))],
                                     c_jobs \cup {<<t, k>>}, t, k + 1)
              ELSE [err |-> "short", ex |-> ex, c_jobs |-> c_jobs] :
                 r \in {solver_get_slices(tk, ew, ex, <<t, k>>, c_jobs)}} : TRUE

\* a variant that starts every job of the first task one unit late
first_task_late(tk, ew, ex, c_jobs, t) ==
    [err |-> "none",
     ex |-> [j \in DOMAIN ex |->
                IF j[1] = t THEN ex[j] \cup {Slice(ew[j].start + 1, ew[j].start + 1 + tk[t].wcet)}
                ELSE ex[j]],
     c_jobs |-> {j \in DOMAIN ex : j[1] = t}]

\* solver._schedule_task: on a core without jobs every job of the task runs
\* from the start of its window; else each job takes free time
_schedule_task(tk, ew, ex, c_jobs, t) ==
    IF c_jobs = {}
    THEN [err |-> "none",
          ex |-> [j \in DOMAIN ex |->
                     IF j[1] = t THEN ex[j] \cup {Slice(ew[j].start, ew[j].start + tk[t].wcet)}
                     ELSE ex[j]],
          c_jobs |-> {j \in DOMAIN ex : j[1] = t}]
    ELSE ScheduleJobs(tk, ew, ex, c_jobs, t, 0)

RECURSIVE _initial_scheduling(_, _, _, _, _, _)
\* solver._initial_scheduling: the tasks in the order of _order_task_cores
_initial_scheduling(tk, ew, ex, c_jobs, ts, i) ==
    IF i > Len(ts) THEN [err |-> "none", ex |-> ex]
    ELSE CHOOSE out \in
             {IF r.err # "none" THEN [err |-> r.err, ex |-> r.ex]
              ELSE _initial_scheduling(tk, ew, r.ex, r.c_jobs, ts, i + 1) :
                 r \in {_schedule_task(tk, ew, ex, c_jobs, ts[i])}} : TRUE

\* a problem file and an architecture file: one processor of one core, one
\* or two tasks in one or two applications
InitDrv ==
    /\ task \in UNION {[1 .. n -> DrvTaskRecs] : n \in 1 .. Cardinality(TaskIds)}
    /\ arch = <<1>>
    /\ order \in BOOLEAN
    /\ alg \in Algorithms
    /\ step = 1
    /\ switch_time = 0
    /\ exec_window = <<>>
    /\ execution = <<>>
    /\ graph_jobs = <<>>
    /\ prev = <<>>
    /\ pc = "files"
    /\ cur = [core |-> 0, idx |-> 0]
    /\ narrowed = 0
    /\ runs = 0
    /\ admission = NotRun
    /\ verdict = NotChecked
    /\ compared = NotCompared
    /\ current_best = NoBest
    /\ generations = <<>>
    /\ returned = NoSolution
    /\ candidate = NoCandidate
    /\ apps \in {AppsOf(Len(task), f) : f \in Groupings(Len(task))}
    /\ cpu_apps = [c \in 1 .. Len(arch) |-> {}]
    /\ core_tasks = [c \in AllCores(arch) |-> <<>>]
    /\ cpu_pqueue = <<>>
    /\ next_app = 0
    /\ mapped = <<>>
    /\ possibilities = <<>>

\* builder.build: the jobs of every task are created
Build ==
    /\ pc = "files"
    /\ exec_window' = [j \in _create_jobs(task) |-> sched_window(task, j)]
    /\ execution' = Empty(task)
    /\ graph_jobs' = Empty(task)
    /\ prev' = Empty(task)
    /\ pc' = "imported"
    /\ UNCHANGED <<task, order, alg, step, switch_time, arch, cur, narrowed, runs,
                   admission, verdict, current_best>>
    /\ UNCHANGED optvars
    /\ UNCHANGED <<mapvars, compared>>

\* solver.solve: _initial_mapping, then _initial_scheduling; no step of it
\* runs an admission test.  core_tasks and cpu_apps stand for the map
\* _initial_mapping builds, execution for Job.execution
Solve ==
    /\ pc = "imported"
    /\ LET m == _initial_mapping(task, alg, apps, 1, {}, <<>>)
           s == _initial_scheduling(task, exec_window, execution, {},
                                    _order_task_cores(task, alg, order, apps, m.apps), 1)
       IN  /\ cpu_apps' = [cpu_apps EXCEPT ![1] = m.apps]
           /\ core_tasks' = [core_tasks EXCEPT ![TheCore] = m.tasks]
           /\ IF ~m.ok
              THEN /\ pc' = "map_error"
                   /\ UNCHANGED <<execution, mapped>>
              ELSE /\ execution' = s.ex
                   /\ mapped' = [c \in {TheCore} |-> Flatten(task, m.tasks, 1)]
                   /\ pc' = IF s.err = "none" THEN "solved" ELSE "sched_error"
    /\ UNCHANGED <<task, order, alg, step, switch_time, arch, exec_window, cur, narrowed,
                   runs, prev, graph_jobs, admission, verdict, current_best,
                   apps, cpu_pqueue, next_app, possibilities, compared>>
    /\ UNCHANGED optvars

NextDrv == Build \/ Solve

SpecDrv == InitDrv /\ [][NextDrv]_vars

(* ------------------------------------------------- vocabulary of claims *)

Jobs == DOMAIN exec_window
CoreOf(j) == task[j[1]].core
CritOf(j) == task[j[1]].criticality
WcetOf(j) == task[j[1]].wcet
Errors == {"intersect", "no_time", "short"}

\* the position of job j in the placement order of its core
Pos(j) == CHOOSE i \in 1 .. Len(Ordered(CoreOf(j))) : Ordered(CoreOf(j))[i] = j

\* the jobs of j's core that schedule() handles before j
Before(j) == {Ordered(CoreOf(j))[i] : i \in 1 .. (Pos(j) - 1)}

\* the jobs the current schedule() call has placed so far
Placed ==
    IF pc = "ready" THEN {}
    ELSE IF pc = "done" THEN Jobs
    ELSE {j \in Jobs : CoreOf(j) < cur.core \/ (CoreOf(j) = cur.core /\ Pos(j) < cur.idx)}

\* the job whose placement has just failed
FailedJob == Ordered(cur.core)[cur.idx]

\* all <<job, slice>> pairs of core c
SlicesOn(c) == UNION {{<<j, s>> : s \in execution[j]} : j \in {x \in Jobs : CoreOf(x) = c}}

RECURSIVE TotalOf(_)
\* the summed length of a set of <<job, slice>> pairs
TotalOf(P) ==
    IF P = {} THEN 0 ELSE LET x == CHOOSE y \in P : TRUE IN SliceLen(x[2]) + TotalOf(P \ {x})

Disjoint(s1, s2) == s1.stop <= s2.start \/ s2.stop <= s1.start

\* C1: from empty executions, after every placement any two distinct slices
\* of one core are disjoint, and _check_no_intersect never raises
C1_SlicesDisjoint ==
    /\ pc # "intersect"
    /\ \A c \in Cores(task) : \A a \in SlicesOn(c) : \A b \in SlicesOn(c) :
          a # b => Disjoint(a[2], b[2])

\* a finished run in which a job was split around the slices of another job
C1_Witness ==
    /\ pc = "done"
    /\ narrowed = 1
    /\ \E j \in Jobs : \E k \in Jobs :
          /\ j # k /\ CoreOf(j) = CoreOf(k)
          /\ Cardinality(execution[j]) = 2
          /\ \E s \in execution[k] : FirstSlice(execution[j]).stop = s.start
                                     /\ LastSlice(execution[j]).start = s.stop

\* C2: every placed job has slices of total length wcet, and after a
\* successful run every task has (hyperperiod / period) * wcet in all
C2_WcetExact ==
    /\ \A j \in Placed : SumLen(execution[j]) = WcetOf(j)
    /\ pc = "done" =>
          \A t \in TaskIds :
              TotalOf(UNION {{<<j, s>> : s \in execution[j]} : j \in {x \in Jobs : x[1] = t}})
                  = (_compute_hyperperiod(task) \div task[t].period) * task[t].wcet

\* a placed job whose last slice was cut out of the space that follows the
\* last intersecting slice, leaving room before exec_window.stop
C2_Witness ==
    /\ pc = "done"
    /\ \E j \in Jobs : \E k \in Before(j) : \E s \in execution[k] :
          /\ LastSlice(execution[j]).start = s.stop
          /\ LastSlice(execution[j]).stop < exec_window[j].stop
          /\ Cardinality(execution[j]) = 2

\* C3: every slice lies inside the exec_window of its job
C3_SlicesInExecWindow ==
    \A j \in Jobs : \A s \in execution[j] :
        exec_window[j].start <= s.start /\ s.stop <= exec_window[j].stop

\* two slices of core c with no slice of c starting between them
Adjacent(c, a, b) ==
    /\ a[2].start < b[2].start
    /\ ~\E x \in SlicesOn(c) : a[2].start < x[2].start /\ x[2].start < b[2].start

\* C4: adjacent slices of different criticality on a core are switch_time apart
C4_SwitchGap ==
    \A c \in Cores(task) : \A a \in SlicesOn(c) : \A b \in SlicesOn(c) :
        (Adjacent(c, a, b) /\ CritOf(a[1]) # CritOf(b[1]))
            => b[2].start - a[2].stop >= switch_time

\* C5: in a schedule accepted as feasible, with order = true, instance k of
\* task i+1 starts no earlier than instance k of task i stops
C5_PerInstanceOrder ==
    (pc = "done" /\ order /\ is_feasible(task, order, exec_window, execution, graph_jobs))
        => \A a \in Jobs : \A b \in Jobs :
              (b[1] = a[1] + 1 /\ b[2] = a[2])
                  => FirstSlice(execution[b]).start >= LastSlice(execution[a]).stop

RECURSIVE ScaledWorkload(_)
\* the hyperperiod times the summed wcet / period of the tasks ts
ScaledWorkload(ts) ==
    IF ts = {} THEN 0
    ELSE LET t == CHOOSE x \in ts : TRUE
         IN task[t].wcet * (_compute_hyperperiod(task) \div task[t].period) + ScaledWorkload(ts \ {t})

\* the hyperperiod times the number of cores
ScaledCores == len_cores(arch) * _compute_hyperperiod(task)

\* C6: the admission test admits iff the total workload is at most
\* cores * margin, equality included, and turns the rest down with the pair
\* (workload, bound)
C6_AdmissionExact ==
    pc \in {"admitted", "rejected"} =>
        /\ (pc = "admitted") <=> (MarginDen * ScaledWorkload(DOMAIN task) <= MarginNum * ScaledCores)
        /\ pc = "admitted" => admission.result = None
        /\ pc = "rejected" =>
              /\ Len(admission.result) = 2
              /\ admission.result[1].num * _compute_hyperperiod(task)
                    = ScaledWorkload(DOMAIN task) * admission.result[1].den
              /\ admission.result[2].num * MarginDen
                    = MarginNum * len_cores(arch) * admission.result[2].den

\* a problem whose workload equals the bound, admitted by global_scheduling_check
C6_Witness ==
    /\ pc = "admitted"
    /\ admission.test = "global_scheduling_check"
    /\ MarginDen * ScaledWorkload(DOMAIN task) = MarginNum * ScaledCores

\* the time units of exec_window[j] that the slices placed before j leave free
Usable(j) ==
    {t \in exec_window[j].start .. (exec_window[j].stop - 1) :
        \A k \in Before(j) : \A s \in execution[k] : ~(s.start <= t /\ t < s.stop)}

\* C7: a job fails exactly when its usable time is shorter than its wcet,
\* and a failed job keeps no slice
C7_FailureExact ==
    /\ \A j \in Placed : Cardinality(Usable(j)) >= WcetOf(j)
    /\ pc \in Errors => /\ Cardinality(Usable(FailedJob)) < WcetOf(FailedJob)
                        /\ execution[FailedJob] = {}

\* the time units the execution of job j covers
Covered(j) == {t \in 0 .. (MaxPeriod + 1) : \E s \in execution[j] : s.start <= t /\ t < s.stop}

\* job j has run, inside its execution window, for exactly its wcet
Meets(j) ==
    /\ execution[j] # {}
    /\ \A s \in execution[j] : exec_window[j].start <= s.start /\ s.stop <= exec_window[j].stop
    /\ Cardinality(Covered(j)) = WcetOf(j)

\* the last job of some task has its last slice start before the last slice
\* of the last job of the task before it stops
LastOrderMiss ==
    \E a \in Jobs : \E b \in Jobs :
        /\ b[1] = a[1] + 1 /\ a = LastJob(task, a[1]) /\ b = LastJob(task, b[1])
        /\ execution[a] # {} /\ execution[b] # {}
        /\ LastSlice(execution[b]).start < LastSlice(execution[a]).stop

C9_RerunSameSlices ==
    runs = 2 => /\ pc \notin Errors
                /\ pc = "done" => execution = prev

RECURSIVE TotalSlack(_)
\* the room the scheduling windows of the jobs js leave beyond the wcet
TotalSlack(js) ==
    IF js = {} THEN 0
    ELSE LET j == CHOOSE x \in js : TRUE
         IN (SliceLen(sched_window(task, j)) - WcetOf(j)) + TotalSlack(js \ {j})

\* C10: from a feasible seed the hill-climbing loop makes finitely many
\* generations, equal-score ones included: no more than the slack of the
\* windows holds steps; a loop that has no generation left to accept stops
C10_Terminates ==
    pc \in {"climb", "stop"} =>
        /\ narrowed * step <= TotalSlack(Jobs)
        /\ narrowed * step = offset_sum(task, exec_window)
        /\ (pc = "climb" /\ Movable(task, step, exec_window) = {}) => Heads(Candidates) = {}

\* the loop has stopped after a generation whose best score equalled the
\* current best was accepted
C10_Witness == pc = "stop" /\ current_best.via = "equal" /\ narrowed >= 2

\* job j of solution sol has run, inside its execution window, for exactly
\* its wcet
SolMeets(sol, j) ==
    /\ sol.execution[j] # {}
    /\ \A x \in sol.execution[j] :
          sol.exec_window[j].start <= x.start /\ x.stop <= sol.exec_window[j].stop
    /\ SumLen(sol.execution[j]) = WcetOf(j)
    /\ \A x \in sol.execution[j] : \A y \in sol.execution[j] : x # y => Disjoint(x, y)

FinalBest == generations[Len(generations)].head.score

\* C12: the solution returned is, of all stored solutions with the final
\* best score, one of the generation found first; when no generation beat
\* the score of the seed, the seed is returned, with offset_sum 0
C12_EarliestBestReturned ==
    pc = "stop" =>
        /\ returned.solution \in generations[returned.found].members
        /\ returned.solution.score = FinalBest
        /\ \A g \in 1 .. Len(generations) : \A sol \in generations[g].members :
              sol.score = FinalBest => returned.found <= g
        /\ (\A g \in 1 .. Len(generations) :
                generations[g].head.score <= generations[1].head.score)
              => /\ returned.solution = generations[1].head
                 /\ returned.solution.offset_sum = 0

\* one task of wcet 2 and period 4, step 1: the search accepted generations
\* of equal score and returned the seed
C12_Witness ==
    /\ pc = "stop"
    /\ DOMAIN task = {1} /\ task[1].wcet = 2 /\ task[1].period = 4 /\ task[1].deadline = 4
    /\ step = 1
    /\ Len(generations) >= 2
    /\ returned.found = 1

\* generations gs is what generations hs started with
IsPrefix(gs, hs) == Len(gs) <= Len(hs) /\ \A i \in 1 .. Len(gs) : gs[i] = hs[i]

\* the neighbours of generations[g - 1].head that were built for generation g
BuiltFor(g) == generations[g].members \cup generations[g].discarded

\* C13: a scheduling failure or a feasibility miss while a neighbour is built
\* discards that neighbour only: every other movable job still gives a
\* candidate, the generations built so far stay as they are and the loop
\* is left by no error; a failure of the initial schedule ends the problem
\* with no solution
C13_State ==
    /\ generations # <<>> => pc \in {"climb", "stop"}
    /\ \A g \in 2 .. Len(generations) :
          /\ \A j \in Movable(task, step, generations[g - 1].head.exec_window) :
                \E c \in BuiltFor(g) : c.moved = j
          /\ \A c \in BuiltFor(g) :
                c \in generations[g].discarded
                    <=> (c.raised \/ \E j \in Jobs : ~SolMeets(c, j))
    /\ pc = "stop" =>
          \A j \in Movable(task, step, exec_window) :
              \/ Neighbour(task, order, alg, switch_time, step, exec_window, graph_jobs, j).raised
              \/ \E k \in Jobs :
                    ~SolMeets(Neighbour(task, order, alg, switch_time, step, exec_window,
                                        graph_jobs, j), k)
              \/ Neighbour(task, order, alg, switch_time, step, exec_window, graph_jobs, j).score
                    < current_best.score
    /\ pc = "unschedulable" => generations = <<>> /\ returned = NoSolution

C13_FailureDiscardsCandidate ==
    []C13_State /\ [][IsPrefix(generations, generations')]_vars

\* a generation was accepted although the scheduler failed on one of its
\* neighbours and another one missed the feasibility check
C13_Witness ==
    \E g \in 2 .. Len(generations) :
        /\ \E c \in generations[g].discarded : c.raised
        /\ \E c \in generations[g].discarded : ~c.raised
        /\ generations[g].members # {}

\* C14: building, scheduling and then keeping or dropping a neighbour leaves
\* the solution it was built from as it was: the exec_window and execution
\* of its jobs, its core -> jobs map and the core -> tasks mapping
C14_ParentUnchanged ==
    [][pc = "climb" =>
          /\ exec_window' = exec_window
          /\ execution' = execution
          /\ mapped' = mapped
          /\ core_tasks' = core_tasks]_vars

\* the tasks on the cores of processor c, in id order
CpuTasks(c) ==
    SeqOfInts({t \in DOMAIN task : \E k \in 1 .. arch[c] : t \in SeqToSet(core_tasks[<<c, k>>])})

\* C15: while and after mapping() runs, every processor that holds at least
\* two applications passes the local test of the policy on its cores and all
\* the tasks on it; under edf its workload is at most |cores| * margin
C15_SharedCpuPassesLocalTest ==
    pc \in {"mapping", "mapped", "map_error"} =>
        \A c \in 1 .. Len(arch) :
            Cardinality(cpu_apps[c]) >= 2 =>
                local_scheduling_check(alg, arch[c], TasksOf(task, CpuTasks(c)),
                                       Rat(MarginNum, MarginDen)) = None

\* how many times x stands in the list l
Count(l, x) == Cardinality({i \in 1 .. Len(l) : l[i] = x})

RECURSIVE SumOver(_, _, _)
\* the sum over the cores cs of the occurrences of x in the list f[c]
SumOver(f, cs, x) ==
    IF cs = {} THEN 0
    ELSE LET c == CHOOSE y \in cs : TRUE IN Count(f[c], x) + SumOver(f, cs \ {c}, x)

\* C16: after a successful mapping every task stands once in the task list
\* of one core and in no other, the tasks of an application are on cores of
\* the one processor whose set of applications holds it, and the returned
\* map has, for each core with tasks and no other, exactly the jobs of the
\* tasks on it, every job of the graph once in the whole map
C16_MappingPartitions ==
    pc = "mapped" =>
        /\ \A t \in DOMAIN task : SumOver(core_tasks, AllCores(arch), t) = 1
        /\ \A a \in DOMAIN apps :
              /\ Cardinality({c \in 1 .. Len(arch) : a \in cpu_apps[c]}) = 1
              /\ \A t \in SeqToSet(apps[a]) : a \in cpu_apps[_get_core(core_tasks, t)[1]]
        /\ DOMAIN mapped = {c \in AllCores(arch) : core_tasks[c] # <<>>}
        /\ \A c \in DOMAIN mapped :
              SeqToSet(mapped[c]) =
                  {j \in _create_jobs(task) : j[1] \in SeqToSet(core_tasks[c])}
        /\ \A j \in _create_jobs(task) : SumOver(mapped, DOMAIN mapped, j) = 1

\* a mapping succeeded with two applications on one processor, tasks on two
\* cores of it and a task of several jobs
C16_Witness ==
    /\ pc = "mapped"
    /\ \E c \in 1 .. Len(arch) :
          /\ Cardinality(cpu_apps[c]) >= 2
          /\ Cardinality({x \in DOMAIN mapped : x[1] = c}) >= 2
    /\ \E c \in DOMAIN mapped : Len(mapped[c]) >= 2

\* the pairs of slices of core c that follow each other in time
AdjacentOn(c) == {p \in SlicesOn(c) \X SlicesOn(c) : Adjacent(c, p[1], p[2])}

\* the adjacent pairs of core c whose slices differ in criticality
SwitchesOn(c) == {p \in AdjacentOn(c) : CritOf(p[1][1]) # CritOf(p[2][1])}

RECURSIVE SumFree(_)
\* over the cores cs: hyperperiod - (slice lengths + switch_time per switch)
SumFree(cs) ==
    IF cs = {} THEN 0
    ELSE LET c == CHOOSE y \in cs : TRUE
         IN  (_compute_hyperperiod(task)
                 - (TotalOf(SlicesOn(c)) + switch_time * Cardinality(SwitchesOn(c))))
             + SumFree(cs \ {c})

\* C18: the cumulated free space of a scheduled solution is the sum over its
\* cores of hyperperiod - (lengths of the slices + switch_time for each pair
\* of adjacent slices of different criticality); one core with the slice
\* [0,3) and hyperperiod 10 scores 7, two cores with [0,4) each score 12
C18_CumulatedFree ==
    pc = "scored" =>
        /\ current_best.score = SumFree(Cores(task))
        /\ (/\ Cores(task) = {1}
            /\ _compute_hyperperiod(task) = 10
            /\ SlicesOn(1) = {<<<<1, 0>>, Slice(0, 3)>>}) => current_best.score = 7
        /\ (/\ Cores(task) = {1, 2}
            /\ _compute_hyperperiod(task) = 10
            /\ SlicesOn(1) = {<<<<1, 0>>, Slice(0, 4)>>}
            /\ SlicesOn(2) = {<<<<2, 0>>, Slice(0, 4)>>}) => current_best.score = 12

\* a scored solution with a switch between criticalities on a core, the
\* switch taking time
C18_Witness ==
    /\ pc = "scored"
    /\ switch_time >= 1
    /\ \E c \in Cores(task) : SwitchesOn(c) # {}

\* the least positive number every period divides
LeastCommonMultiple ==
    CHOOSE h \in 1 .. Pow(MaxPeriod, Len(task)) :
        /\ \A t \in DOMAIN task : h % task[t].period = 0
        /\ \A g \in 1 .. (h - 1) : \E t \in DOMAIN task : g % task[t].period # 0

\* C17: once build() has run, every task has exactly hyperperiod / period
\* jobs, the hyperperiod being the least common multiple of the periods;
\* job k has sched_window [k*period, k*period + deadline) and the same
\* exec_window; with deadline <= period the sched_windows of the jobs of a
\* task are pairwise disjoint and lie in [0, hyperperiod]
C17_JobExpansion ==
    pc # "files" =>
        \A t \in DOMAIN task :
            LET n == LeastCommonMultiple \div task[t].period
                of_t == {j \in DOMAIN exec_window : j[1] = t}
            IN  /\ of_t = {<<t, k>> : k \in 0 .. (n - 1)}
                /\ Cardinality(of_t) = n
                /\ \A j \in of_t :
                      /\ sched_window(task, j) =
                             Slice(j[2] * task[t].period, j[2] * task[t].period + task[t].deadline)
                      /\ exec_window[j] = sched_window(task, j)
                /\ task[t].deadline <= task[t].period =>
                      /\ \A i \in of_t : \A j \in of_t :
                            i # j => Disjoint(sched_window(task, i), sched_window(task, j))
                      /\ \A j \in of_t :
                            /\ 0 <= sched_window(task, j).start
                            /\ sched_window(task, j).stop <= LeastCommonMultiple

\* build() has run on two tasks of different periods: the task of the
\* shorter period has several jobs
C17_Witness ==
    /\ pc = "imported"
    /\ \E t \in DOMAIN task : \E u \in DOMAIN task : task[t].period < task[u].period
    /\ \E j \in DOMAIN exec_window : j[2] >= 1

\* one task with wcet = period = deadline, and the driver has run
SaturatedTask ==
    /\ Len(task) = 1
    /\ task[1].wcet = task[1].period
    /\ task[1].deadline = task[1].period
    /\ pc \notin {"files", "imported"}

\* every job k has the one slice [k*period, k*period + wcet)
OneSlicePerPeriod ==
    \A j \in DOMAIN execution :
        execution[j] = {Slice(j[2] * task[j[1]].period, j[2] * task[j[1]].period + task[j[1]].wcet)}

C20_RejectedBeforeMapping ==
    global_schedulability_test(arch, task).raised =>
        /\ pc \in {"files", "imported", "rejected"}
        /\ \A c \in DOMAIN cpu_apps : cpu_apps[c] = {}
        /\ \A c \in DOMAIN core_tasks : core_tasks[c] = <<>>
        /\ \A j \in DOMAIN execution : execution[j] = {}

\* C21: on each core no job is placed while a job of strictly higher
\* criticality of the same core is still unplaced
C21_HigherCriticalityFirst ==
    \A j \in Placed : \A k \in Jobs :
        (CoreOf(k) = CoreOf(j) /\ CritOf(k) > CritOf(j)) => k \in Placed

\* the slices placed on j's core before j, each with its job
PlacedBefore(j) == UNION {{<<k, s>> : s \in execution[k]} : k \in Before(j)}

\* the time unit [t, t + 1) lies in slice s
InSlice(t, s) == s.start <= t /\ t < s.stop

\* the time unit [t, t + 1) lies in a switch margin next to a slice, placed
\* before j, of another criticality than j
InMargin(j, t) ==
    \E p \in PlacedBefore(j) :
        /\ CritOf(p[1]) # CritOf(j)
        /\ \/ p[2].stop <= t /\ t < p[2].stop + switch_time
           \/ p[2].start - switch_time <= t /\ t < p[2].start

\* C22: placement is greedy earliest-fit: from exec_window.start to the stop
\* of the last slice of a placed job every time unit is taken by the job, by
\* a slice placed before it or by a switch margin, and a job with no slice
\* placed before it in its exec_window gets [start, start + wcet)
C22_GreedyEarliestFit ==
    \A j \in Placed :
        /\ \A t \in exec_window[j].start .. (LastSlice(execution[j]).stop - 1) :
              \/ \E s \in execution[j] : InSlice(t, s)
              \/ \E p \in PlacedBefore(j) : InSlice(t, p[2])
              \/ InMargin(j, t)
        /\ (\A p \in PlacedBefore(j) : Disjoint(p[2], exec_window[j]))
              => execution[j] = {Slice(exec_window[j].start, exec_window[j].start + WcetOf(j))}

\* the key the policy sorts on, read off the scheduling window and the task
PolicyKey(j) ==
    IF alg = "edf" THEN j[2] * task[j[1]].period + task[j[1]].deadline ELSE task[j[1]].period

\* C23: the policy's ordering is a permutation of the jobs of the core in
\* non-decreasing order of sched_window.stop (edf) or task.period (rm), and
\* whatever the exec_windows are, the jobs are placed in that order
C23_OrderingByKey ==
    \A c \in Cores(task) :
        /\ Len(Ordered(c)) = Len(core_jobs(task, c))
        /\ SeqToSet(Ordered(c)) = SeqToSet(core_jobs(task, c))
        /\ \A i \in 1 .. (Len(Ordered(c)) - 1) :
              PolicyKey(Ordered(c)[i]) <= PolicyKey(Ordered(c)[i + 1])
        /\ \A j \in SeqToSet(Ordered(c)) : \A k \in SeqToSet(Ordered(c)) :
              (execution[j] # {} /\ execution[k] = {}) => PolicyKey(j) <= PolicyKey(k)

\* on a narrowed map, a job whose exec_window starts later than that of a
\* job with a larger key has been placed while the other one still waits
C23_Witness ==
    /\ narrowed = 1
    /\ pc = "running"
    /\ \E j \in Jobs : \E k \in Jobs :
          /\ CoreOf(j) = CoreOf(k)
          /\ PolicyKey(j) < PolicyKey(k)
          /\ exec_window[j].start > exec_window[k].start
          /\ execution[j] # {} /\ execution[k] = {}

\* the cores whose loop iteration in schedule() is over
FinishedCores ==
    IF pc = "ready" THEN {}
    ELSE IF pc = "done" THEN Cores(task)
    ELSE {c \in Cores(task) : c < cur.core}

\* core c scheduled on its own, from empty executions
Alone(c) == _create_execution_slices(task, exec_window, Empty(task), Ordered(c), 1)

\* the cores that hold tasks, in descending order
CoresReversed ==
    [i \in 1 .. Cardinality(Cores(task)) |->
        SeqOfInts(Cores(task))[Cardinality(Cores(task)) + 1 - i]]

\* C24: the slices of a core that schedule() has gone through are those the
\* core gets when it is scheduled on its own, and a finished schedule is the
\* one schedule() makes when it takes the cores in the opposite order
C24_CoresIndependent ==
    /\ \A c \in FinishedCores :
          /\ Alone(c).ok
          /\ \A j \in SeqToSet(Ordered(c)) : execution[j] = Alone(c).ex[j]
    /\ pc = "done" =>
          /\ ScheduleCores(task, alg, exec_window, Empty(task), CoresReversed).ok
          /\ ScheduleCores(task, alg, exec_window, Empty(task), CoresReversed).ex = execution

\* a finished schedule of two cores whose jobs run at the same time
C24_Witness ==
    /\ pc = "done"
    /\ \E j \in Jobs : \E k \in Jobs :
          /\ CoreOf(j) # CoreOf(k)
          /\ execution[j] \cap execution[k] # {}

\* the hyperperiod times the workload of core c under the task lists ct
CoreLoad(ct, c) == ScaledWorkload(SeqToSet(ct[c]))

\* the hyperperiod times the workload of processor p under the task lists ct
CpuLoad(ct, p) == ScaledWorkload(UNION {SeqToSet(ct[<<p, k>>]) : k \in 1 .. arch[p]})

\* the task lists ct without the tasks of the list ts from position i on
Without(ct, ts, i) ==
    [c \in DOMAIN ct |-> SelectSeq(ct[c], LAMBDA t : t \notin {ts[k] : k \in i .. Len(ts)})]

\* a round of mapping() that accepts the application app on processor p:
\* p is a least loaded processor, and each task went to a core of p that was
\* least loaded when the tasks before it had been appended
LeastLoaded(app, p) ==
    /\ \A q \in 1 .. Len(arch) : CpuLoad(core_tasks, p) <= CpuLoad(core_tasks, q)
    /\ \A i \in 1 .. Len(app) :
          /\ _get_core(core_tasks', app[i])[1] = p
          /\ \A k \in 1 .. arch[p] :
                CoreLoad(Without(core_tasks', app, i), _get_core(core_tasks', app[i]))
                    <= CoreLoad(Without(core_tasks', app, i), <<p, k>>)

\* C25: every accepted application goes to a processor of least workload,
\* each of its tasks to a core of that processor of least workload at the
\* moment of the append; two applications of one task each, mapped on one
\* processor of two cores, end on distinct cores
C25_LeastLoadedFirst ==
    [][/\ (pc = "mapping" /\ next_app' = next_app + 1) =>
              \E p \in 1 .. Len(arch) :
                 /\ cpu_apps'[p] = cpu_apps[p] \cup {next_app}
                 /\ LeastLoaded(apps[next_app], p)
       /\ (/\ pc' = "mapped"
           /\ arch = <<2>>
           /\ Len(apps) = 2
           /\ \A a \in 1 .. 2 : Len(apps[a]) = 1) =>
              _get_core(core_tasks', 1) # _get_core(core_tasks', 2)]_vars

\* a mapping of two applications of one task on one processor of two cores
\* has ended
C25_Witness ==
    /\ pc = "mapped"
    /\ arch = <<2>>
    /\ Len(apps) = 2
    /\ \A a \in 1 .. 2 : Len(apps[a]) = 1
    /\ core_tasks[<<1, 1>>] # <<>> /\ core_tasks[<<1, 2>>] # <<>>

\* the applications mapping() has accepted so far
MappedApps == UNION {cpu_apps[c] : c \in 1 .. Len(arch)}

\* C26: no application is mapped while an application of strictly higher
\* criticality is still unmapped
C26_HighestCriticalityMappedFirst ==
    pc \in {"mapping", "mapped", "map_error"} =>
        \A a \in MappedApps : \A b \in (DOMAIN apps) \ MappedApps :
            AppCrit(task, apps[b]) <= AppCrit(task, apps[a])

\* no candidate of this step is strictly better than the current best
NotImproving == \A c \in Candidates : c.score <= current_best.score

\* every candidate of this step is strictly worse than the current best
AllWorse == \A c \in Candidates : c.score < current_best.score

\* the search ends with this step: no generation is appended
StopsHere == generations' = generations /\ pc' = "stop"

NarrowedFromLeft(ew) ==
    \A j \in DOMAIN ew :
        /\ sched_window(task, j).start <= ew[j].start
        /\ ew[j].stop = sched_window(task, j).stop
        /\ SliceLen(ew[j]) >= WcetOf(j)

\* no window of ew starts before the window of the same job in dw
NotBefore(ew, dw) == \A j \in DOMAIN ew : dw[j].start <= ew[j].start

\* the state part of C28: the current windows and those of every solution
\* built so far, kept or discarded, are narrowed from the left, and from one
\* generation to the next no exec_window.start decreases
C28_State ==
    /\ NarrowedFromLeft(exec_window)
    /\ \A g \in 1 .. Len(generations) :
          \A c \in BuiltFor(g) : /\ DOMAIN c.exec_window = Jobs
                                 /\ NarrowedFromLeft(c.exec_window)
    /\ \A g \in 2 .. Len(generations) :
          \A c \in BuiltFor(g) : NotBefore(c.exec_window, generations[g - 1].head.exec_window)
    /\ generations # <<>> =>
          /\ generations[1].head.exec_window = [j \in Jobs |-> sched_window(task, j)]
          /\ NotBefore(exec_window, generations[Len(generations)].head.exec_window)

\* C28: after any sequence of optimiser steps every exec_window is its
\* sched_window narrowed from the left with room for the wcet, the
\* sched_windows never change, and no exec_window.start ever decreases
C28_WindowsNarrowFromLeft ==
    /\ []C28_State
    /\ [][/\ \A j \in Jobs : sched_window(task', j) = sched_window(task, j)
          /\ DOMAIN exec_window' = Jobs
          /\ NotBefore(exec_window', exec_window)]_vars

\* the search has ended on a job moved twice whose window has no slack left
C28_Witness ==
    /\ pc = "stop"
    /\ Len(generations) >= 3
    /\ \E j \in Jobs :
          /\ exec_window[j].start >= sched_window(task, j).start + 2
          /\ SliceLen(exec_window[j]) = WcetOf(j)

\* core c with the task list l fails the local test of the policy
FailsLocalTest(l) ==
    local_scheduling_check(alg, 1, TasksOf(task, l), Rat(MarginNum, MarginDen)) # None

\* the swap ch was drawn on the task lists ct: one application, two distinct
\* cores of the processor that holds it, each holding the task of that
\* application that it gives away
SwapWithinApp(ct, ch) ==
    /\ ch.cores[1] # ch.cores[2]
    /\ \E p \in 1 .. Len(arch) :
          /\ ch.app \in cpu_apps[p]
          /\ ch.cores[1] \in 1 .. arch[p] /\ ch.cores[2] \in 1 .. arch[p]
    /\ ch.task0 # ch.task1
    /\ ch.task0 \in SeqToSet(apps[ch.app]) /\ ch.task1 \in SeqToSet(apps[ch.app])
    /\ ch.task0 \in SeqToSet(ct[ch.cores[1]])
    /\ ch.task1 \in SeqToSet(ct[ch.cores[2]])

RECURSIVE CountJobs(_, _)
\* the summed length of the job lists cj[c], c in cs
CountJobs(cj, cs) ==
    IF cs = {} THEN 0
    ELSE LET c == CHOOSE x \in cs : TRUE IN Len(cj[c]) + CountJobs(cj, cs \ {c})

\* the number of jobs in the core -> jobs map cj
JobsInMap(cj) == CountJobs(cj, DOMAIN cj)

\* C30: after a swap of task0 of cores[1] with task1 of cores[2], task0 is in
\* the task list of cores[2] and not of cores[1], task1 the other way round,
\* the jobs of task0 are in the neighbour's job list of cores[2] and those of
\* task1 in that of cores[1], and the tasks and jobs of every other core and
\* the number of jobs in the map are unchanged
C30_SwapMovesTasksAndJobs ==
    [][(pc = "climb" /\ candidate'.built /\ candidate'.swap # NoSwap) =>
          LET ch == candidate'.swap
              cj == candidate'.core_jobs
          IN  /\ ch.task0 \in SeqToSet(core_tasks'[ch.cores[2]])
              /\ ch.task0 \notin SeqToSet(core_tasks'[ch.cores[1]])
              /\ ch.task1 \in SeqToSet(core_tasks'[ch.cores[1]])
              /\ ch.task1 \notin SeqToSet(core_tasks'[ch.cores[2]])
              /\ \A j \in Jobs : j[1] = ch.task0 => j \in SeqToSet(cj[ch.cores[2]])
              /\ \A j \in Jobs : j[1] = ch.task1 => j \in SeqToSet(cj[ch.cores[1]])
              /\ \A c \in (DOMAIN core_tasks) \ {ch.cores[1], ch.cores[2]} :
                    core_tasks'[c] = core_tasks[c] /\ cj[c] = mapped[c]
              /\ JobsInMap(cj) = JobsInMap(mapped)]_vars

\* the cores whose task list holds a task of the application with tasks ts
CoresOfApp(ct, ts) == {c \in DOMAIN ct : \E t \in SeqToSet(ts) : t \in SeqToSet(ct[c])}

\* the table poss agrees with the applications ap and the task lists ct
TableAgrees(poss, ap, ct) ==
    /\ DOMAIN poss = {a \in 1 .. Len(ap) : Cardinality(CoresOfApp(ct, ap[a])) >= 2}
    /\ \A a \in DOMAIN poss :
          /\ DOMAIN poss[a] = CoresOfApp(ct, ap[a])
          /\ \A c \in DOMAIN poss[a] : poss[a][c] # {}
          /\ \A c, d \in DOMAIN poss[a] : c # d => poss[a][c] \cap poss[a][d] = {}
          /\ UNION {poss[a][c] : c \in DOMAIN poss[a]} = SeqToSet(ap[a])
          /\ \A c, d \in DOMAIN poss[a] : c[1] = d[1]
          /\ \A c \in DOMAIN poss[a] : \A t \in SeqToSet(ap[a]) :
                t \in poss[a][c] <=> t \in SeqToSet(ct[c])

\* C31: the alteration table, when built and after every swap, lists the
\* applications that have tasks on two cores or more; the cores listed for
\* an application are those holding tasks of it, all of one processor, each
\* with the non-empty set of the application's tasks in its task list, and
\* these sets are disjoint and make up the application
C31_AlterationTableKept ==
    pc = "table" => TableAgrees(possibilities, apps, core_tasks)

\* two swaps or more were made on an architecture of two processors: the
\* task lists are no longer those the mapper left
C31_Witness ==
    /\ pc = "table"
    /\ Len(arch) = 2
    /\ candidate # NoCandidate
    /\ possibilities # <<>>
    /\ \E c \in DOMAIN mapped : {j[1] : j \in SeqToSet(mapped[c])} # SeqToSet(core_tasks[c])
    /\ \E a \in DOMAIN possibilities : \E c \in DOMAIN possibilities[a] :
          Cardinality(possibilities[a][c]) = 2

\* the tasks of core c
TasksOn(c) == {t \in DOMAIN task : task[t].core = c}

\* core c holds tasks of one criticality whose deadline is their period and
\* whose summed wcet / period is at most 1
ImplicitAndFits(c) ==
    /\ \A t, u \in TasksOn(c) : task[t].criticality = task[u].criticality
    /\ \A t \in TasksOn(c) : task[t].deadline = task[t].period
    /\ ScaledWorkload(TasksOn(c)) <= _compute_hyperperiod(task)

C33_CandidateCheckedOnOwnSlices ==
    (pc = "done" /\ narrowed >= 1) =>
        /\ has_order_miss(task, order, graph_jobs) = has_order_miss(task, order, execution)
        /\ min_app_delay(task, apps, order, graph_jobs) = min_app_delay(task, apps, order, execution)

\* C34: when mapping() has returned, every core that holds tasks passes the
\* local test of the policy taken for that core alone
C34_MappedCoresPassLocalTest ==
    pc = "mapped" =>
        \A c \in DOMAIN mapped : CoreCheck(task, alg, core_tasks, c)

\* the processor whose set of applications the step has extended
Extended(p) == cpu_apps'[p] # cpu_apps[p]

\* C34 as amended: a core that holds tasks may fail the local test taken for
\* it alone; what mapping() ensures is that an application accepted on a
\* processor that already held applications passed the local test on the
\* number of cores of that processor and the application's own tasks
C34_AppsTestedPerProcessor ==
    [][pc = "mapping" =>
          \A p \in 1 .. Len(arch) : (Extended(p) /\ cpu_apps[p] # {}) =>
              local_scheduling_check(alg, arch[p], TasksOf(task, apps[next_app]),
                                     Rat(MarginNum, MarginDen)) = None]_vars

\* a mapping that succeeded, with two applications on a processor and a
\* core above the bound of the local test
C34_Witness ==
    /\ pc = "mapped"
    /\ \E p \in 1 .. Len(arch) : Cardinality(cpu_apps[p]) >= 2
    /\ \E c \in DOMAIN mapped : ~CoreCheck(task, alg, core_tasks, c)

\* the tasks mapped to processor p
TasksOnCpu(p) == UNION {SeqToSet(core_tasks[<<p, k>>]) : k \in 1 .. arch[p]}

\* the hyperperiod times the largest workload of a task of processor p
LargestTaskLoad(p) == MaxOf({ScaledWorkload({t}) : t \in TasksOnCpu(p)})

\* C35: when mapping() has returned, the workloads of two cores of a
\* processor differ by at most the largest workload of a task mapped to
\* that processor
C35_CoresBalanced ==
    pc = "mapped" =>
        \A p \in 1 .. Len(arch) : TasksOnCpu(p) # {} =>
            \A k, l \in 1 .. arch[p] :
                CoreLoad(core_tasks, <<p, k>>) - CoreLoad(core_tasks, <<p, l>>) <= LargestTaskLoad(p)

\* a processor of two cores, both holding tasks, whose workloads differ by
\* exactly the largest workload of a task
C35_Witness ==
    /\ pc = "mapped"
    /\ \E p \in 1 .. Len(arch) :
          /\ arch[p] = 2
          /\ core_tasks[<<p, 1>>] # <<>> /\ core_tasks[<<p, 2>>] # <<>>
          /\ \E t, u \in TasksOnCpu(p) : ScaledWorkload({t}) # ScaledWorkload({u})
          /\ \E k, l \in 1 .. 2 :
                CoreLoad(core_tasks, <<p, k>>) - CoreLoad(core_tasks, <<p, l>>) = LargestTaskLoad(p)

\* the problem passes the global admission test of its policy:
\* SchedAlgorithm.global_scheduling_check, all cores and all tasks
PolicyAdmits ==
    local_scheduling_check(alg, len_cores(arch), task, Rat(MarginNum, MarginDen)) = None

\* C36: on an architecture of one processor, a problem that passes the
\* global admission test of its policy never makes mapping() raise
C36_AdmittedIsMappedOnOneCpu ==
    (Len(arch) = 1 /\ PolicyAdmits) => pc # "map_error"

\* under rm, three applications mapped on the one processor of a problem
\* that the global test admits, the last two having gone through the test
C36_Witness ==
    /\ pc = "mapped"
    /\ Len(arch) = 1
    /\ alg = "rm"
    /\ PolicyAdmits
    /\ Len(apps) = 3
    /\ cpu_apps[1] = {1, 2, 3}

\* every core holds tasks of one criticality only
OneCriticalityPerCore ==
    \A t, u \in DOMAIN task : task[t].core = task[u].core => task[t].criticality = task[u].criticality

\* over the mapped cores: hyperperiod - sum of (hyperperiod / period) * wcet
FreeByWorkload ==
    Cardinality(Cores(task)) * _compute_hyperperiod(task) - ScaledWorkload(DOMAIN task)

\* C37: when every core holds tasks of one criticality, every feasible
\* schedule of the mapping that the search has scored (the seed and the
\* candidates with narrowed windows) has the cumulated free space given by
\* the workloads alone, so that no candidate is strictly better than another
C37_FreeSpaceFixedByMapping ==
    OneCriticalityPerCore =>
        /\ current_best # NoBest => current_best.score = FreeByWorkload
        /\ \A i \in 1 .. Len(generations) : \A m \in generations[i].members :
              /\ m.score = FreeByWorkload
              /\ ~(m.score > generations[1].head.score)

\* a second generation on a core that two tasks share, the switch taking
\* time: its head is scheduled differently from the seed
C37_Witness ==
    /\ OneCriticalityPerCore
    /\ switch_time >= 1
    /\ \E t, u \in DOMAIN task : t # u /\ task[t].core = task[u].core
    /\ Len(generations) >= 2
    /\ generations[2].head.execution # generations[1].head.execution

\* schedule() is over and the feasibility checker accepts the solution
PassedChecker ==
    /\ pc = "done"
    /\ is_feasible(task, order, exec_window, execution, graph_jobs)

\* C38: on a solution the feasibility checker accepts, min_app_delay raises
\* nothing (the assertion earliest_start < latest_stop of an application
\* without order holds) and the delay of every application, ordered or not,
\* is strictly positive
C38_DelayPositive ==
    PassedChecker =>
        /\ min_app_delay(task, apps, order, graph_jobs).err = "none"
        /\ \A a \in 1 .. Len(apps) :
              /\ app_delay(task, apps[a], order, graph_jobs).err = "none"
              /\ app_delay(task, apps[a], order, graph_jobs).value > 0

\* an accepted solution of an application without order, its two tasks on
\* two cores, whose delay is a single time unit
C38_Witness ==
    /\ PassedChecker
    /\ ~order
    /\ Cardinality(Cores(task)) = 2
    /\ min_app_delay(task, apps, order, graph_jobs) = Scored(1)


\* C39: for any two slices with start < stop, the scheduler's _intersect is
\* true exactly when slice1.start < slice2.stop and slice2.start <
\* slice1.stop; it gives the same answer with its arguments exchanged, the
\* same answer as Slice.intersect, and false when slice1 stops where slice2
\* starts
C39_IntersectIffOverlap ==
    pc = "compared" =>
        /\ compared._intersect <=> (/\ compared.slice1.start < compared.slice2.stop
                                    /\ compared.slice2.start < compared.slice1.stop)
        /\ compared._intersect <=> compared.swapped
        /\ compared._intersect <=> compared.intersect
        /\ compared.slice1.stop = compared.slice2.start => ~compared._intersect

\* two equal slices found to intersect
C39_Witness ==
    /\ pc = "compared"
    /\ compared.slice1 = compared.slice2
    /\ compared._intersect
    /\ compared.intersect

====
